---- MODULE Spec2Model ----
(***************************************************************************)
(* Tower: the apply pipeline (src/core/applier.ts) and the HTTP handlers   *)
(* that start it (src/cli/serve.ts), over the files of the data directory. *)
(*                                                                         *)
(* JavaScript runs one task at a time, so an action is the code between    *)
(* two awaits.  Deno.writeTextFile truncates the file and then writes it,  *)
(* so a write is two actions: the file is "partial" in between.            *)
(***************************************************************************)
EXTENDS Integers, Sequences, FiniteSets, TLC

\* ---------------------------------------------------------------- bounds
NumWorkers == 2      \* request slots of one server instance
NumIntents == 2      \* distinct valid intent documents
MaxDigest == 1       \* distinct digests the registry can report (0 = miss)
MaxRequests == 2     \* requests received in one behaviour (also the clock)
MaxServeRequests == 2 \* the same, when requests may overlap

Workers == 1..NumWorkers
Intents == 1..NumIntents
BadBody == 0
Bodies == Intents \cup {BadBody}
Digests == 0..MaxDigest
InitIntent == 1

\* ------------------------------------------------------------ file model
FileNames == {"tmp", "manifest", "caddy", "intent", "applied", "creds"}
NoContent == <<0, 0, 0>>
Absent == [st |-> "absent", c |-> NoContent]
Partial(c) == [st |-> "partial", c |-> c]
Full(c) == [st |-> "full", c |-> c]
NoFiles == [f \in FileNames |-> Absent]

\* generateCompose(validatedIntent, resolvedImages): a function of both
generateCompose(i, d) == <<i, d, 0>>
\* generateCaddyJson(services, adminEmail): a function of the intent only
generateCaddyJson(i) == <<i, 0, 0>>
\* {...validatedIntent, appliedAt, resolvedImages}
AppliedIntent(i, d, t) == <<i, d, t>>
\* JSON.stringify(credentials)
CredentialsJson == <<0, 0, 1>>

\* validateIntent: accepts exactly the well-formed documents and returns
\* the intent (unknown keys such as appliedAt/resolvedImages are dropped)
validateIntent(body) == [ok |-> body \in Intents, intent |-> IF body \in Intents THEN body ELSE 0]
\* readJsonFile(intent.json) followed by validateIntent: the intent fields
\* of the stored record
IntentOfRecord(c) == c[1]

\* ------------------------------------------------------------ the stages
Stages == <<"validate", "resolve", "dns", "generate", "config", "apply", "health", "reload", "persist">>
StageSet == {Stages[k] : k \in 1..Len(Stages)}
StageIdx(s) == CHOOSE k \in 1..Len(Stages) : Stages[k] = s
NoOutcome == [s \in StageSet |-> "none"]

Kinds == {"apply", "refresh", "status", "cli"}
PipelinePcs == {"resolve", "dns", "tmp_w", "tmp_c", "validate", "rm_fail", "man_w", "man_c",
                "rm_ok", "caddy_w", "caddy_c", "up", "reload", "int_w", "int_c"}
EndPcs == {"done", "failed", "responded", "crashed"}

\* no library function is being studied
NoCall == [fn |-> "none"]

IdleReq == [kind |-> "none", body |-> 0, auth |-> FALSE]
IdleRun == [intent |-> 0, digest |-> 0, verdict |-> "none", checked |-> NoContent, appliedAt |-> 0]
NoResp == [status |-> 0, body |-> {}, closed |-> FALSE, report |-> NoContent]

VARIABLES
  files,      \* the data directory: file name -> [st, c]
  registry,   \* digest the registry currently reports for the app's range
  deployed,   \* manifest content the running containers were brought up from
  proxy,      \* routing config the proxy last accepted
  clock,      \* wall clock, advanced by each request received
  readerSaw,  \* what an outside reader of manifest/intent last observed
  pc,         \* worker -> position in its handler
  req,        \* worker -> the request it serves
  run,        \* worker -> locals of apply(): intent, digest, validated content
  out,        \* worker -> outcome of every stage of the current run
  fx,         \* worker -> side effects the current run has performed
  pre,        \* worker -> the files as they were when apply() was entered
  resp,       \* worker -> the HTTP response so far
  call        \* a library function under study: its inputs, progress and result

vars == <<files, registry, deployed, proxy, clock, readerSaw, pc, req, run, out, fx, pre, resp, call>>
shared == <<files, registry, deployed, proxy, clock, readerSaw>>

\* state left by `tower init` (bootstrap) or an empty data directory
InitedFiles ==
  [f \in FileNames |->
     CASE f = "manifest" -> Full(generateCompose(InitIntent, 0))
       [] f = "caddy" -> Full(generateCaddyJson(InitIntent))
       [] f = "intent" -> Full(AppliedIntent(InitIntent, 0, 0))
       [] f = "creds" -> Full(CredentialsJson)
       [] OTHER -> Absent]

Init ==
  /\ files \in {NoFiles, InitedFiles}
  /\ registry = 0
  /\ deployed = (IF files = NoFiles THEN NoContent ELSE generateCompose(InitIntent, 0))
  /\ proxy = (IF files = NoFiles THEN NoContent ELSE generateCaddyJson(InitIntent))
  /\ clock = 0
  /\ readerSaw = "nothing"
  /\ pc = [p \in Workers |-> "idle"]
  /\ req = [p \in Workers |-> IdleReq]
  /\ run = [p \in Workers |-> IdleRun]
  /\ out = [p \in Workers |-> NoOutcome]
  /\ fx = [p \in Workers |-> {}]
  /\ pre = [p \in Workers |-> NoFiles]
  /\ resp = [p \in Workers |-> NoResp]
  /\ call = NoCall

\* ------------------------------------------------------------- helpers
\* (variant: the generated manifest carries the time of generation)
composeYamlStamped(p) == <<run[p].intent, run[p].digest, clock>>

composeYaml(p) == generateCompose(run[p].intent, run[p].digest)
caddyJson(p) == generateCaddyJson(run[p].intent)

Streams(p) == req[p].kind \in {"apply", "refresh"}

\* control moves to `nxt`; when the run throws (nxt = "failed") apply()
\* rejects and the stream's catch block sends the failure line and closes
Goto(p, nxt) ==
  /\ pc' = [pc EXCEPT ![p] = nxt]
  /\ resp' = IF nxt = "failed" /\ Streams(p)
             THEN [resp EXCEPT ![p].body = @ \cup {"failed"}, ![p].closed = TRUE]
             ELSE resp

\* `stage` ended with `res`; unless the run stops, `following` starts
Outcome(p, nxt, stage, res, following) ==
  out' = [out EXCEPT ![p] = IF nxt = "failed"
                            THEN [@ EXCEPT ![stage] = res]
                            ELSE [@ EXCEPT ![stage] = res, ![following] = "run"]]

OkFail(ok) == IF ok THEN "ok" ELSE "fail"

\* Deno.writeTextFile(path, content): open with truncate ...
BeginWrite(f, c) == files' = [files EXCEPT ![f] = Partial(c)]
\* ... then write everything; when another writer touched the file in
\* between, the bytes on disk are either ours or a mix of both
EndWrite(f, c) ==
  \E torn \in BOOLEAN :
    /\ torn => files[f] # Partial(c)
    /\ files' = [files EXCEPT ![f] = IF torn THEN Partial(c) ELSE Full(c)]

\* ------------------------------------------------- environment actions
\* an outside reader (operator, backup, the proxy or compose at start-up)
\* reads the manifest or the applied-intent record
Observe(f) ==
  /\ f \in {"manifest", "intent"}
  /\ files[f].st # "absent"
  /\ readerSaw' = (IF files[f].st = "partial" THEN "torn" ELSE "complete")
  /\ readerSaw' # readerSaw
  /\ UNCHANGED <<call, files, registry, deployed, proxy, clock, pc, req, run, out, fx, pre, resp>>

\* ------------------------------------------------------- HTTP handlers
\* a request arrives at a free slot (serve.ts handler) or `tower apply`
\* is started (kind "cli"); `serial` = the caller waits for the previous
\* response to end before sending the next request
Receive(p, serial) ==
  /\ pc[p] = "idle"
  /\ serial => p = 1 /\ \A q \in Workers : pc[q] = "idle"
  /\ clock < (IF serial THEN MaxRequests ELSE MaxServeRequests)
  /\ \E k \in Kinds, b \in Bodies, a \in BOOLEAN :
       /\ k \in {"refresh", "status"} => b = BadBody
       /\ k = "cli" => a
       /\ req' = [req EXCEPT ![p] = [kind |-> k, body |-> b, auth |-> a]]
       /\ pc' = [pc EXCEPT ![p] = IF k = "cli" THEN "parse" ELSE "auth"]
  /\ clock' = clock + 1
  /\ UNCHANGED <<call, files, registry, deployed, proxy, readerSaw, run, out, fx, pre, resp>>

\* (variant: no AuthError is thrown)
authenticateAnyone(p) == TRUE

\* authenticate(): header present and parsable, credentials.json exists,
\* username and password match
authenticate(p) == req[p].auth /\ files["creds"].st = "full"

Authenticate(p) ==
  /\ pc[p] = "auth"
  /\ IF authenticate(p)
     THEN /\ pc' = [pc EXCEPT ![p] = "parse"]
          /\ resp' = resp
     ELSE /\ pc' = [pc EXCEPT ![p] = "responded"]
          /\ resp' = [resp EXCEPT ![p] = [NoResp EXCEPT !.status = 401, !.closed = TRUE]]
  /\ UNCHANGED <<call, shared, req, run, out, fx, pre>>

\* status of the Response returned once the stream is created
StreamStatus == 200

\* apply(intent) up to its first await: validateIntent, resolveServices,
\* then resolveSemver is started.  r = the response of the caller so far.
ApplyEntry(p, i, r) ==
  LET v == validateIntent(i) IN
  /\ pre' = [pre EXCEPT ![p] = files]
  /\ fx' = [fx EXCEPT ![p] = {}]
  /\ IF v.ok
     THEN /\ run' = [run EXCEPT ![p] = [IdleRun EXCEPT !.intent = v.intent]]
          /\ out' = [out EXCEPT ![p] = [NoOutcome EXCEPT !["validate"] = "ok", !["resolve"] = "run"]]
          /\ pc' = [pc EXCEPT ![p] = "resolve"]
          /\ resp' = [resp EXCEPT ![p] = r]
     ELSE /\ run' = [run EXCEPT ![p] = IdleRun]
          /\ out' = [out EXCEPT ![p] = [NoOutcome EXCEPT !["validate"] = "fail"]]
          /\ pc' = [pc EXCEPT ![p] = "failed"]
          /\ resp' = [resp EXCEPT ![p] = IF Streams(p)
                        THEN [r EXCEPT !.body = @ \cup {"failed"}, !.closed = TRUE] ELSE r]

\* handleApply after authentication: parse + validate the body (400 on
\* failure), create the stream, return the Response, start apply()
HandleApply(p) ==
  /\ pc[p] = "parse" /\ req[p].kind = "apply"
  /\ IF validateIntent(req[p].body).ok
     THEN ApplyEntry(p, validateIntent(req[p].body).intent,
                     [NoResp EXCEPT !.status = StreamStatus, !.body = {"starting"}])
     ELSE /\ pc' = [pc EXCEPT ![p] = "responded"]
          /\ resp' = [resp EXCEPT ![p] = [NoResp EXCEPT !.status = 400, !.closed = TRUE]]
          /\ UNCHANGED <<call, run, out, fx, pre>>
  /\ UNCHANGED <<call, shared, req>>

\* handleRefresh after authentication: 404 without intent.json, 500 when
\* it does not parse, else the stored intent is applied again
HandleRefresh(p) ==
  /\ pc[p] = "parse" /\ req[p].kind = "refresh"
  /\ IF files["intent"].st = "full" /\ validateIntent(IntentOfRecord(files["intent"].c)).ok
     THEN ApplyEntry(p, validateIntent(IntentOfRecord(files["intent"].c)).intent,
                     [NoResp EXCEPT !.status = StreamStatus, !.body = {"starting"}])
     ELSE /\ pc' = [pc EXCEPT ![p] = "responded"]
          /\ resp' = [resp EXCEPT ![p] = [NoResp EXCEPT
                        !.status = (IF files["intent"].st = "absent" THEN 404 ELSE 500),
                        !.closed = TRUE]]
          /\ UNCHANGED <<call, run, out, fx, pre>>
  /\ UNCHANGED <<call, shared, req>>

\* the file handleStatus loads the applied intent from
StatusFile == "applied"

\* handleStatus after authentication: report the applied intent if the
\* file exists; a file that does not parse gives 500
HandleStatus(p) ==
  /\ pc[p] = "parse" /\ req[p].kind = "status"
  /\ resp' = [resp EXCEPT ![p] =
       IF files[StatusFile].st = "partial"
       THEN [NoResp EXCEPT !.status = 500, !.closed = TRUE]
       ELSE [NoResp EXCEPT !.status = 200, !.closed = TRUE, !.body = {"status"},
                           !.report = files[StatusFile].c]]
  /\ pc' = [pc EXCEPT ![p] = "responded"]
  /\ UNCHANGED <<call, shared, req, run, out, fx, pre>>

\* runApply (`tower apply`): parse + validate stdin, then apply()
RunApply(p) ==
  /\ pc[p] = "parse" /\ req[p].kind = "cli"
  /\ IF validateIntent(req[p].body).ok
     THEN ApplyEntry(p, validateIntent(req[p].body).intent, NoResp)
     ELSE /\ pc' = [pc EXCEPT ![p] = "responded"]
          /\ UNCHANGED <<call, run, out, fx, pre, resp>>
  /\ UNCHANGED <<call, shared, req>>

\* the client has read the response to its end; the slot is free again
Finish(p) ==
  /\ pc[p] \in EndPcs
  /\ pc' = [pc EXCEPT ![p] = "idle"]
  /\ req' = [req EXCEPT ![p] = IdleReq]
  /\ run' = [run EXCEPT ![p] = IdleRun]
  /\ out' = [out EXCEPT ![p] = NoOutcome]
  /\ fx' = [fx EXCEPT ![p] = {}]
  /\ pre' = [pre EXCEPT ![p] = NoFiles]
  /\ resp' = [resp EXCEPT ![p] = NoResp]
  /\ UNCHANGED <<call, shared>>


\* ------------------------------------------------------ apply pipeline
\* Step 3: resolveSemver returns what the registry reports now for the
\* app's range (a miss leaves the map empty, digest 0); the registry is read
\* here only, so a tag that moved is seen as a move at this read.
\* Step 4: collectDomains and validateDns is started
ResolveSemver(p) ==
  /\ pc[p] = "resolve"
  /\ \E d \in Digests :
       /\ registry' = d
       /\ run' = [run EXCEPT ![p].digest = d]
  /\ Outcome(p, "dns", "resolve", "ok", "dns")
  /\ Goto(p, "dns")
  /\ UNCHANGED <<call, files, deployed, proxy, clock, readerSaw, req, fx, pre>>

\* (variant: the DnsError is swallowed)
AfterDnsAlways(ok) == "tmp_w"

\* validateDns throws DnsError when some domain never resolved
AfterDns(ok) == IF ok THEN "tmp_w" ELSE "failed"

\* Step 4 ends; Step 5 (generateCompose, generateCaddyJson) is synchronous
\* and the write of the temporary manifest is started
ValidateDns(p) ==
  /\ pc[p] = "dns"
  /\ \E ok \in BOOLEAN :
       /\ out' = [out EXCEPT ![p] =
                    IF AfterDns(ok) = "failed"
                    THEN [@ EXCEPT !["dns"] = OkFail(ok)]
                    ELSE [@ EXCEPT !["dns"] = OkFail(ok), !["generate"] = "ok", !["config"] = "run"]]
       /\ Goto(p, AfterDns(ok))
  /\ UNCHANGED <<call, shared, req, run, fx, pre>>

\* Step 6: writeTextFile(tempComposePath, composeYaml)
WriteTmpBegin(p) ==
  /\ pc[p] = "tmp_w"
  /\ BeginWrite("tmp", composeYaml(p))
  /\ fx' = [fx EXCEPT ![p] = @ \cup {"tmp"}]
  /\ pc' = [pc EXCEPT ![p] = "tmp_c"]
  /\ UNCHANGED <<call, registry, deployed, proxy, clock, readerSaw, req, run, out, pre, resp>>

WriteTmpEnd(p) ==
  /\ pc[p] = "tmp_c"
  /\ EndWrite("tmp", composeYaml(p))
  /\ pc' = [pc EXCEPT ![p] = "validate"]
  /\ UNCHANGED <<call, registry, deployed, proxy, clock, readerSaw, req, run, out, fx, pre, resp>>

\* (variant: the final file is written whatever the verdict)
AfterValidateAlways(ok) == "man_w"

\* try { validateCompose; write final file } catch { remove temp; throw }
AfterValidate(ok) == IF ok THEN "man_w" ELSE "rm_fail"

\* validateCompose(tempComposePath): `docker compose config -q` on the
\* file as it is on disk now; its verdict is the external tool's
ValidateCompose(p) ==
  /\ pc[p] = "validate"
  /\ \E ok \in BOOLEAN :
       /\ files["tmp"].st = "absent" => ~ok
       /\ run' = [run EXCEPT ![p].verdict = OkFail(ok),
                              ![p].checked = IF ok THEN files["tmp"].c ELSE NoContent]
       /\ pc' = [pc EXCEPT ![p] = AfterValidate(ok)]
  /\ UNCHANGED <<call, shared, req, out, fx, pre, resp>>

\* (variant: the catch block removes composePath instead of the temp path)
RemoveTmpFailWrongPath(p) ==
  /\ pc[p] = "rm_fail"
  /\ files' = [files EXCEPT !["manifest"] = Absent]
  /\ fx' = [fx EXCEPT ![p] = @ \cup {"rmtmp"}]
  /\ out' = [out EXCEPT ![p]["config"] = "fail"]
  /\ Goto(p, "failed")
  /\ UNCHANGED <<call, registry, deployed, proxy, clock, readerSaw, req, run, pre>>

\* catch: Deno.remove(tempComposePath).catch(() => {}); throw
RemoveTmpFail(p) ==
  /\ pc[p] = "rm_fail"
  /\ files' = [files EXCEPT !["tmp"] = Absent]
  /\ fx' = [fx EXCEPT ![p] = @ \cup {"rmtmp"}]
  /\ out' = [out EXCEPT ![p]["config"] = "fail"]
  /\ Goto(p, "failed")
  /\ UNCHANGED <<call, registry, deployed, proxy, clock, readerSaw, req, run, pre>>

\* writeTextFile(composePath, composeYaml)
WriteManifestBegin(p) ==
  /\ pc[p] = "man_w"
  /\ BeginWrite("manifest", composeYaml(p))
  /\ fx' = [fx EXCEPT ![p] = @ \cup {"manifest"}]
  /\ pc' = [pc EXCEPT ![p] = "man_c"]
  /\ UNCHANGED <<call, registry, deployed, proxy, clock, readerSaw, req, run, out, pre, resp>>

WriteManifestEnd(p) ==
  /\ pc[p] = "man_c"
  /\ EndWrite("manifest", composeYaml(p))
  /\ pc' = [pc EXCEPT ![p] = "rm_ok"]
  /\ UNCHANGED <<call, registry, deployed, proxy, clock, readerSaw, req, run, out, fx, pre, resp>>

\* Deno.remove(tempComposePath).catch(() => {})
RemoveTmpOk(p) ==
  /\ pc[p] = "rm_ok"
  /\ files' = [files EXCEPT !["tmp"] = Absent]
  /\ fx' = [fx EXCEPT ![p] = @ \cup {"rmtmp"}]
  /\ pc' = [pc EXCEPT ![p] = "caddy_w"]
  /\ UNCHANGED <<call, registry, deployed, proxy, clock, readerSaw, req, run, out, pre, resp>>

\* writeTextFile(caddyPath, caddyJson)
WriteCaddyBegin(p) ==
  /\ pc[p] = "caddy_w"
  /\ BeginWrite("caddy", caddyJson(p))
  /\ fx' = [fx EXCEPT ![p] = @ \cup {"caddy"}]
  /\ pc' = [pc EXCEPT ![p] = "caddy_c"]
  /\ UNCHANGED <<call, registry, deployed, proxy, clock, readerSaw, req, run, out, pre, resp>>

\* the write ends; Step 7: composeUpWithWait is started
WriteCaddyEnd(p) ==
  /\ pc[p] = "caddy_c"
  /\ EndWrite("caddy", caddyJson(p))
  /\ Outcome(p, "up", "config", "ok", "apply")
  /\ pc' = [pc EXCEPT ![p] = "up"]
  /\ UNCHANGED <<call, registry, deployed, proxy, clock, readerSaw, req, run, fx, pre, resp>>

\* (variant: the exit code is not looked at)
AfterComposeUpAlways(r) == "reload"

\* composeUpWithWait throws on a non-zero exit code
AfterComposeUp(r) == IF r = "ok" THEN "reload" ELSE "failed"

\* `docker compose -f composePath up -d --wait`: fails before touching the
\* containers ("upFail"), or brings them up from the manifest on disk and
\* then waits for health, which may fail too ("healthFail")
ComposeUpWithWait(p) ==
  /\ pc[p] = "up"
  /\ \E r \in {"ok", "upFail", "healthFail"} :
       /\ files["manifest"].st = "absent" => r = "upFail"
       /\ deployed' = (IF r = "upFail" THEN deployed ELSE files["manifest"].c)
       /\ out' = [out EXCEPT ![p] =
                    CASE r = "upFail" -> [@ EXCEPT !["apply"] = "fail"]
                      [] r = "healthFail" -> [@ EXCEPT !["apply"] = "ok", !["health"] = "fail"]
                      [] OTHER -> IF AfterComposeUp(r) = "failed"
                                  THEN [@ EXCEPT !["apply"] = "ok", !["health"] = "ok"]
                                  ELSE [@ EXCEPT !["apply"] = "ok", !["health"] = "ok", !["reload"] = "run"]]
       /\ Goto(p, AfterComposeUp(r))
  /\ fx' = [fx EXCEPT ![p] = @ \cup {"up"}]
  /\ UNCHANGED <<call, files, registry, proxy, clock, readerSaw, req, run, pre>>

\* (variant: response.ok is not looked at)
AfterReloadAlways(ok) == "int_w"

\* loadCaddyConfig throws when the admin API answers non-2xx
AfterReload(ok) == IF ok THEN "int_w" ELSE "failed"

\* Step 8: POST /load; the proxy adopts the config or keeps the old one
LoadCaddyConfig(p) ==
  /\ pc[p] = "reload"
  /\ \E ok \in BOOLEAN :
       /\ proxy' = (IF ok THEN caddyJson(p) ELSE proxy)
       /\ Outcome(p, AfterReload(ok), "reload", OkFail(ok), "persist")
       /\ Goto(p, AfterReload(ok))
  /\ fx' = [fx EXCEPT ![p] = @ \cup {"reload"}]
  /\ UNCHANGED <<call, files, registry, deployed, clock, readerSaw, req, run, pre>>

\* Step 9: appliedIntent = {...validatedIntent, appliedAt: now, resolvedImages};
\* writeTextFile(intent.json, ...)
WriteIntentBegin(p) ==
  /\ pc[p] = "int_w"
  /\ run' = [run EXCEPT ![p].appliedAt = clock]
  /\ BeginWrite("intent", AppliedIntent(run[p].intent, run[p].digest, clock))
  /\ fx' = [fx EXCEPT ![p] = @ \cup {"intent"}]
  /\ pc' = [pc EXCEPT ![p] = "int_c"]
  /\ UNCHANGED <<call, registry, deployed, proxy, clock, readerSaw, req, out, pre, resp>>

\* the record is on disk; apply() returns and the stream sends the
\* success line and closes
WriteIntentEnd(p) ==
  /\ pc[p] = "int_c"
  /\ EndWrite("intent", AppliedIntent(run[p].intent, run[p].digest, run[p].appliedAt))
  /\ out' = [out EXCEPT ![p]["persist"] = "ok"]
  /\ pc' = [pc EXCEPT ![p] = "done"]
  /\ resp' = IF Streams(p)
             THEN [resp EXCEPT ![p].body = @ \cup {"success"}, ![p].closed = TRUE]
             ELSE resp
  /\ UNCHANGED <<call, registry, deployed, proxy, clock, readerSaw, req, run, fx, pre>>

\* the process dies in the middle of a request (kill, power loss)
Crash(p) ==
  /\ pc[p] \notin {"idle"} \cup EndPcs
  /\ pc' = [pc EXCEPT ![p] = "crashed"]
  /\ UNCHANGED <<call, shared, req, run, out, fx, pre, resp>>

\* ------------------------------------------------------ specifications
Step(p) ==
  \/ Authenticate(p) \/ HandleApply(p) \/ HandleRefresh(p) \/ HandleStatus(p) \/ RunApply(p)
  \/ ResolveSemver(p) \/ ValidateDns(p)
  \/ WriteTmpBegin(p) \/ WriteTmpEnd(p) \/ ValidateCompose(p) \/ RemoveTmpFail(p)
  \/ WriteManifestBegin(p) \/ WriteManifestEnd(p) \/ RemoveTmpOk(p)
  \/ WriteCaddyBegin(p) \/ WriteCaddyEnd(p)
  \/ ComposeUpWithWait(p) \/ LoadCaddyConfig(p)
  \/ WriteIntentBegin(p) \/ WriteIntentEnd(p)
  \/ Finish(p)

\* requests sent one at a time by a caller that waits for each response
Next == \E p \in Workers : Receive(p, TRUE) \/ Step(p)
Spec == Init /\ [][Next]_vars

\* the same, with an outside reader of the files
Reader == \E f \in FileNames : Observe(f)
NextRead == Next \/ Reader
SpecRead == Init /\ [][NextRead]_vars

\* the same, and the process may die at any point of a request
NextCrash == \E p \in Workers : Receive(p, TRUE) \/ Step(p) \/ Crash(p)
SpecCrash == Init /\ [][NextCrash]_vars

\* the server as it is: Deno.serve runs the handler for every request at
\* once, nothing makes a request wait for another
NextServe == \E p \in Workers : Receive(p, FALSE) \/ Step(p)
SpecServe == Init /\ [][NextServe]_vars

\* ------------------------------------------------------------ properties
\* apply() has been entered by worker p (its snapshot `pre` is set)
InRun(p) == out[p]["validate"] # "none"
\* apply() of worker p has returned or thrown
Returned(p) == InRun(p) /\ pc[p] \in {"done", "failed"}
Earlier(s) == {Stages[k] : k \in 1..(StageIdx(s) - 1)}

\* C1: across apply runs executed one at a time, the canonical manifest is
\* either what it was when the run began or the content whose temporary
\* copy passed validation in this run, and once the run has ended it is a
\* complete file (never a broken one).
C1_ManifestOnlyValidated ==
  \A p \in Workers : InRun(p) =>
     /\ \/ files["manifest"] = pre[p]["manifest"]
        \/ /\ run[p].verdict = "ok"
           /\ files["manifest"].c = run[p].checked
           /\ run[p].checked = composeYaml(p)
     /\ pc[p] \in {"done", "failed"} =>
          (files["manifest"] = pre[p]["manifest"] \/ files["manifest"] = Full(run[p].checked))

C1_Witness ==
  \E p \in Workers : /\ pc[p] = "done"
                     /\ files["manifest"] = Full(run[p].checked)
                     /\ pre[p]["manifest"].st = "full"
                     /\ files["manifest"] # pre[p]["manifest"]

\* C2: when manifest validation failed in an apply that has returned, the
\* canonical manifest and intent.json are what they were when it began.
C2_ValidationFailureLeavesFiles ==
  \A p \in Workers : (Returned(p) /\ run[p].verdict = "fail") =>
     /\ files["manifest"] = pre[p]["manifest"]
     /\ files["intent"] = pre[p]["intent"]

C2_Witness ==
  \E p \in Workers : /\ Returned(p) /\ run[p].verdict = "fail"
                     /\ pre[p]["manifest"].st = "full"
                     /\ pre[p]["intent"].st = "full"
                     /\ composeYaml(p) # pre[p]["manifest"].c

\* C3: intent.json differs from what it was when the run began only if
\* validation, resolution, the DNS gate, manifest validation, compose-up
\* (with its health wait) and the proxy reload all succeeded in this run;
\* this holds at every point of the run, so also where the process dies.
C3_PersistOnlyAfterAllStages ==
  \A p \in Workers : InRun(p) =>
     \/ files["intent"] = pre[p]["intent"]
     \/ /\ \A s \in Earlier("persist") : out[p][s] = "ok"
        /\ run[p].verdict = "ok"

C3_Witness ==
  \E p \in Workers : /\ pc[p] = "crashed" /\ InRun(p)
                     /\ out[p]["health"] = "ok"
                     /\ out[p]["persist"] = "none"
                     /\ pre[p]["intent"].st = "full"
                     /\ files["intent"] = pre[p]["intent"]
                     /\ files["manifest"] # pre[p]["manifest"]

\* C4 (as claimed): when compose-up failed, the canonical manifest still
\* holds the content it had before this apply began.
C4_ManifestKeptOnUpFailure ==
  \A p \in Workers : (Returned(p) /\ "fail" \in {out[p]["apply"], out[p]["health"]}) =>
     files["manifest"] = pre[p]["manifest"]

\* C5: when the DNS gate failed, this run has written no file of the data
\* directory and has invoked neither compose-up nor the proxy reload.
C5_DnsFailureBeforeMutation ==
  \A p \in Workers : (InRun(p) /\ out[p]["dns"] = "fail") =>
     /\ files = pre[p]
     /\ fx[p] = {}

C5_Witness ==
  \E p \in Workers : /\ pc[p] = "failed" /\ out[p]["dns"] = "fail"
                     /\ out[p]["resolve"] = "ok"
                     /\ files["manifest"].st = "full"

\* C6 (as claimed): a reader of the canonical manifest or of intent.json
\* never observes a partial write.
C6_ReaderNeverSeesPartial == readerSaw # "torn"

\* C7: the stages of a run start in order, each only after the previous
\* one succeeded; a failed stage ends the run, no later stage has started
\* and no side effect of a later stage exists; a failed run stays failed
\* and changes nothing any more.
StageOfEffect(e) ==
  CASE e \in {"tmp", "manifest", "rmtmp", "caddy"} -> "config"
    [] e = "up" -> "apply"
    [] e = "reload" -> "reload"
    [] OTHER -> "persist"

C7_StagesInOrder ==
  \A p \in Workers :
     /\ \A k \in 2..Len(Stages) : out[p][Stages[k]] # "none" => out[p][Stages[k - 1]] = "ok"
     /\ (\E s \in StageSet : out[p][s] = "fail") => pc[p] = "failed"
     /\ \A e \in fx[p] : out[p][StageOfEffect(e)] # "none"

C7_FailedIsAbsorbing ==
  \A p \in Workers : pc[p] = "failed" =>
     \/ pc'[p] = "idle"
     \/ pc'[p] = "failed" /\ UNCHANGED <<files, deployed, proxy, out, fx>>

C7_SequentialAndAbsorbing == []C7_StagesInOrder /\ [][C7_FailedIsAbsorbing]_vars

C7_Witness ==
  \E p \in Workers : /\ pc[p] = "failed" /\ out[p]["reload"] = "fail"
                     /\ out[p]["persist"] = "none"
                     /\ fx[p] = {"tmp", "manifest", "rmtmp", "caddy", "up", "reload"}

\* C8 (as claimed): at no time are two apply pipelines in progress in one
\* server instance.
C8_OnePipelineAtATime ==
  Cardinality({p \in Workers : pc[p] \in PipelinePcs /\ Streams(p)}) <= 1

\* C9 (as claimed): the record written by a successful apply (appliedAt is
\* then later than the bootstrap's) is the intent a following refresh
\* applies and the applied intent a following status reports.
C9_RecordReadBack ==
  \A p \in Workers :
     /\ (req[p].kind = "refresh" /\ InRun(p) /\ pre[p]["intent"].st = "full")
           => run[p].intent = IntentOfRecord(pre[p]["intent"].c)
     /\ (req[p].kind = "status" /\ pc[p] = "responded" /\ resp[p].status = 200
           /\ files["intent"].st = "full" /\ files["intent"].c[3] >= 1)
           => resp[p].report = files["intent"].c

\* C10 (as claimed): when the pipeline of a POST /apply or POST /refresh
\* failed, the response carries the failure text and a non-2xx status.
C10_FailureIsNon2xx ==
  \A p \in Workers : (Streams(p) /\ pc[p] = "failed") =>
     /\ "failed" \in resp[p].body
     /\ ~(resp[p].status \in 200..299)

\* C11: a request to /apply, /refresh or /status that carries no valid
\* Authorization header for the tower account is answered 401 and nothing
\* else: no apply pipeline is entered for it and its response carries no
\* stored intent and no status data.
C11_UnauthenticatedGets401 ==
  \A p \in Workers :
     (req[p].kind \in {"apply", "refresh", "status"} /\ ~req[p].auth /\ pc[p] # "auth") =>
        /\ pc[p] = "responded"
        /\ resp[p].status = 401
        /\ resp[p].body = {}
        /\ resp[p].report = NoContent
        /\ ~InRun(p)
        /\ fx[p] = {}

C11_Witness ==
  \E p \in Workers : /\ req[p].kind = "apply" /\ req[p].body \in Intents /\ ~req[p].auth
                     /\ pc[p] = "responded" /\ resp[p].status = 401
                     /\ files["intent"].st = "full" /\ files["creds"].st = "full"

MaxTags == 2         \* tags a repository of the registry holds at most

T(k) == [k |-> k, a |-> 0, b |-> 0, c |-> 0]
V(k, a, b, c) == [k |-> k, a |-> a, b |-> b, c |-> c]
Colon == T(":")
Slash == T("/")
At == T("@")
\* null
Null == <<>>

\* intent.registry.domain
RegistryDomain == <<T("reg.example.com")>>
\* "registry://"
LocalPrefix == <<T("registry"), Colon, Slash, Slash>>
\* "registry:5000/"
InternalPrefix == <<T("registry"), Colon, T("5000"), Slash>>
\* the repository the registry holds
Repository == <<T("api")>>

\* String.prototype.startsWith / slice
startsWith(s, prefix) == Len(s) >= Len(prefix) /\ SubSeq(s, 1, Len(prefix)) = prefix
slice(s, n) == SubSeq(s, n + 1, Len(s))
\* index of the first occurrence of token t in s, 0 when there is none
IndexOf(s, t) ==
  IF \E i \in 1..Len(s) : s[i] = t
  THEN CHOOSE i \in 1..Len(s) : s[i] = t /\ \A j \in 1..(i - 1) : s[j] # t
  ELSE 0

\* image.replace(prefix, "registry:5000/") when image starts with
\* `${intent.registry.domain}/`
rewriteRegistryToInternal(image) ==
  LET prefix == RegistryDomain \o <<Slash>> IN
  IF startsWith(image, prefix) THEN InternalPrefix \o slice(image, Len(prefix)) ELSE image

\* (variant: the portable prefix is replaced by the domain and nothing more)
normalizeLocalRegistryDomainOnly(image) ==
  IF startsWith(image, LocalPrefix)
  THEN RegistryDomain \o <<Slash>> \o slice(image, Len(LocalPrefix))
  ELSE image

normalizeLocalRegistry(image) ==
  LET withDomain == IF startsWith(image, LocalPrefix)
                    THEN RegistryDomain \o <<Slash>> \o slice(image, Len(LocalPrefix))
                    ELSE image
  IN rewriteRegistryToInternal(withDomain)

\* const [registry, ...repoParts] = path.split("/"); repoParts.join("/")
splitPath(path) ==
  LET k == IndexOf(path, Slash) IN
  IF k = 0 THEN [registry |-> path, repository |-> <<>>]
  ELSE [registry |-> SubSeq(path, 1, k - 1), repository |-> slice(path, k)]

\* /^([^@]+)@(.+)$/ first, then /^([^:]+):(.+)$/, else tag "latest"
parseImageRef(imageRef) ==
  LET d == IndexOf(imageRef, At)
      t == IndexOf(imageRef, Colon)
  IN IF d >= 2 /\ d < Len(imageRef)
     THEN [registry |-> splitPath(SubSeq(imageRef, 1, d - 1)).registry,
           repository |-> splitPath(SubSeq(imageRef, 1, d - 1)).repository,
           tag |-> <<>>, digest |-> slice(imageRef, d)]
     ELSE IF t >= 2 /\ t < Len(imageRef)
     THEN [registry |-> splitPath(SubSeq(imageRef, 1, t - 1)).registry,
           repository |-> splitPath(SubSeq(imageRef, 1, t - 1)).repository,
           tag |-> slice(imageRef, t), digest |-> <<>>]
     ELSE [registry |-> splitPath(imageRef).registry,
           repository |-> splitPath(imageRef).repository,
           tag |-> <<T("latest")>>, digest |-> <<>>]

\* tokens that begin with an optional one of ~ ^ > = < and then a digit
DigitLed == {"ver", "^", "~", "5000"}
\* /^[~^>=<]?\d+(\.\d+)?(\.\d+)?/.test(tag): only the beginning is looked at
isSemverLike(tag) == tag # <<>> /\ Head(tag).k \in DigitLed

\* /^\d+\.\d+\.\d+(-...)?(\+...)?$/ on the tag without its "v": token
\* kinds "ver" (X.Y.Z), "v" (vX.Y.Z) and "pre" (X.Y.Z with a pre-release
\* or build suffix)
isSemverTag(tag) == tag.k \in {"ver", "v", "pre"}
\* normalizeTag: the tag without its leading "v"
normalizeTag(tag) == IF tag.k = "v" THEN V("ver", tag.a, tag.b, tag.c) ELSE tag

\* a range with "*": V("*", X, Y, n) is the text of n numbers (X, or X.Y)
\* followed by ".*".  Each "*" becomes \d+ and the whole is a regular
\* expression anchored at both ends, so the tag has to be n + 1 numbers
\* and nothing else (the dots of the pattern match any character, which
\* makes no difference on tags of the form X.Y.Z)
WildcardMatches(r, tag) ==
  /\ normalizeTag(tag).k = "ver"
  /\ r.c + 1 = 3
  /\ tag.a = r.a
  /\ r.c >= 2 => tag.b = r.b
\* parseRange(range)(tag): exact version, caret, tilde, else exact text
\* (caret compares major and minor only: tagMinor > minor, or
\* tagMinor === minor and the patch is present)
RangeMatches(range, tag) ==
  IF Len(range) = 1 /\ range[1].k = "ver" THEN normalizeTag(tag) = range[1]
  ELSE IF Len(range) = 1 /\ range[1].k = "*" THEN WildcardMatches(range[1], tag)
  ELSE IF Len(range) = 1 /\ range[1].k = "^" THEN tag.a = range[1].a /\ tag.b >= range[1].b
  ELSE IF Len(range) = 1 /\ range[1].k = "~" THEN tag.a = range[1].a /\ tag.b = range[1].b
  ELSE <<normalizeTag(tag)>> = range

\* compareSemver(a, b) <= 0, for tags without a suffix
SemverLeq(x, y) ==
  \/ x.a < y.a
  \/ x.a = y.a /\ x.b < y.b
  \/ x.a = y.a /\ x.b = y.b /\ x.c <= y.c

\* matchSemverRange on the tags of a registry that lists plain, pairwise
\* different versions (their order in the list does not matter then): the
\* semver tags that match, sorted, the last one
matchSemverRange(range, tags) ==
  LET matches == {tag \in tags : isSemverTag(tag) /\ RangeMatches(range, tag)} IN
  IF matches = {} THEN [found |-> FALSE, tag |-> T("none")]
  ELSE [found |-> TRUE, tag |-> CHOOSE m \in matches : \A o \in matches : SemverLeq(o, m)]

\* the Docker-Content-Digest the registry reports for a tag
DigestOf(tag) == <<T("sha256"), Colon, V("hex", tag.a, tag.b, tag.c)>>

\* the registry answers for the repository it holds; `lenient` = it also
\* answers for any other repository path with the same tags
Serves(reg, repository) == repository = Repository \/ reg.lenient

\* listTags: getJson throws when the registry is unreachable or answers
\* non-2xx; it is rethrown as RegistryError
listTags(reg, repository) ==
  IF reg.list = "ok" /\ Serves(reg, repository)
  THEN [threw |-> FALSE, tags |-> reg.tags]
  ELSE [threw |-> TRUE, tags |-> {}]

\* getDigest: HEAD the manifest; throws RegistryError when the registry is
\* unreachable, answers non-2xx or sends no Docker-Content-Digest header
getDigest(reg, repository, tag) ==
  IF reg.head = "ok" /\ Serves(reg, repository) /\ tag \in reg.tags
  THEN [threw |-> FALSE, digest |-> DigestOf(tag)]
  ELSE [threw |-> TRUE, digest |-> <<>>]

ReturnValue(val, requests) == [threw |-> FALSE, val |-> val, requests |-> requests]
ThrowError(requests) == [threw |-> TRUE, val |-> Null, requests |-> requests]

\* the body of the try block of resolveImageToDigest
resolveImageToDigestTry(imageRef, reg) ==
  LET parsed == parseImageRef(imageRef)
      isInternalRegistry == parsed.registry = <<T("registry")>> \/ parsed.registry = RegistryDomain
      baseUrl == IF isInternalRegistry THEN <<T("registry"), Colon, T("5000")>> ELSE parsed.registry
      tagsReq == [op |-> "tags", baseUrl |-> baseUrl, repository |-> parsed.repository]
      headReq == [op |-> "head", baseUrl |-> baseUrl, repository |-> parsed.repository]
      listed == listTags(reg, parsed.repository)
      matched == matchSemverRange(parsed.tag, listed.tags)
      got == getDigest(reg, parsed.repository, matched.tag)
  IN IF parsed.digest # <<>> THEN ReturnValue(imageRef, <<>>)
     ELSE IF parsed.tag = <<>> \/ ~isSemverLike(parsed.tag) THEN ReturnValue(Null, <<>>)
     ELSE IF listed.threw THEN ThrowError(<<tagsReq>>)
     ELSE IF ~matched.found THEN ReturnValue(Null, <<tagsReq>>)
     ELSE IF got.threw THEN ThrowError(<<tagsReq, headReq>>)
     ELSE ReturnValue(parsed.registry \o <<Slash>> \o parsed.repository \o <<At>> \o got.digest,
                    <<tagsReq, headReq>>)

\* (variant: no catch block)
CatchNothing(r) == r

\* catch (error) { logger.warn(...); return null; }
Catch(r) == IF r.threw THEN ReturnValue(Null, r.requests) ELSE r

resolveImageToDigest(imageRef, reg) == Catch(resolveImageToDigestTry(imageRef, reg))

\* (variant: the fallback is the image as the app wrote it)
imageDigestRaw(resolvedImage, normalizedImageRef, image) ==
  IF resolvedImage # Null THEN resolvedImage ELSE image

\* imageDigest: resolvedImage ?? normalizedImageRef
imageDigest(resolvedImage, normalizedImageRef, image) ==
  IF resolvedImage # Null THEN resolvedImage ELSE normalizedImageRef

\* resolveServices, for one app: rejects only if resolution rejects
resolveApp(image, reg) ==
  LET normalizedImageRef == normalizeLocalRegistry(image)
      resolved == resolveImageToDigest(normalizedImageRef, reg)
  IN [threw |-> resolved.threw,
      image |-> image,
      imageDigest |-> IF resolved.threw THEN Null
                      ELSE imageDigest(resolved.val, normalizedImageRef, image),
      requests |-> resolved.requests]

\* --------------------------------------------- environment of an app
EnvKeys == {"OTEL_EXPORTER_OTLP_ENDPOINT", "APP_KEY"}
NoValue == "absent"
AppValues == {"app-1", "app-2"}
EnvMaps == [EnvKeys -> AppValues \cup {NoValue}]
\* baseEnvs
baseEnvs == [k \in EnvKeys |-> IF k = "OTEL_EXPORTER_OTLP_ENDPOINT" THEN "http://otel-lgtm:4317" ELSE NoValue]

\* (variant: the baseline is spread last)
MergeBaselineLast(base, over) == [k \in EnvKeys |-> IF base[k] # NoValue THEN base[k] ELSE over[k]]

\* {...base, ...over}
Merge(base, over) == [k \in EnvKeys |-> IF over[k] # NoValue THEN over[k] ELSE base[k]]

\* the app part of the resolved service: {...app, env: {...baseEnvs, ...app.env}}
resolveAppEnv(app) == [env |-> Merge(baseEnvs, app.env), secrets |-> app.secrets]

\* ------------------------------------------------- inputs and actions
Hosts == {"registry://", "domain", "internal", "external", "bare"}
Suffixes == {"none", "trailing", "latest", "caret", "exact", "digest"}
HostPart(h) ==
  CASE h = "registry://" -> LocalPrefix
    [] h = "domain" -> RegistryDomain \o <<Slash>>
    [] h = "internal" -> InternalPrefix
    [] h = "external" -> <<T("ghcr.io"), Slash>>
    [] OTHER -> <<>>
SuffixPart(x) ==
  CASE x = "latest" -> <<Colon, T("latest")>>
    [] x = "trailing" -> <<Colon>>
    [] x = "caret" -> <<Colon, V("^", 1, 0, 0)>>
    [] x = "exact" -> <<Colon, V("ver", 1, 1, 0)>>
    [] x = "digest" -> <<At>> \o DigestOf(V("ver", 1, 0, 0))
    [] OTHER -> <<>>
\* app.image as written in the intent
ImageOf(h, x) == HostPart(h) \o Repository \o SuffixPart(x)
\* the part after the host
RestOf(x) == Repository \o SuffixPart(x)

TagUniverse == {V("ver", 1, 0, 0), V("ver", 1, 1, 0), V("ver", 2, 0, 0), T("latest")}
Registries ==
  [list : {"down", "status", "ok"},
   head : {"down", "status", "nohdr", "ok"},
   tags : {ts \in SUBSET TagUniverse : Cardinality(ts) <= MaxTags},
   lenient : BOOLEAN]

NoService == [threw |-> FALSE, image |-> Null, imageDigest |-> Null, requests |-> <<>>]
NoResolution == ReturnValue(Null, <<>>)

pipeline == <<files, registry, deployed, proxy, clock, readerSaw, pc, req, run, out, fx, pre, resp>>

\* no request is being served, the data directory is empty
PipelineIdle ==
  /\ files = NoFiles /\ registry = 0 /\ deployed = NoContent /\ proxy = NoContent
  /\ clock = 0 /\ readerSaw = "nothing"
  /\ pc = [p \in Workers |-> "idle"]
  /\ req = [p \in Workers |-> IdleReq]
  /\ run = [p \in Workers |-> IdleRun]
  /\ out = [p \in Workers |-> NoOutcome]
  /\ fx = [p \in Workers |-> {}]
  /\ pre = [p \in Workers |-> NoFiles]
  /\ resp = [p \in Workers |-> NoResp]

InitDeployer ==
  /\ PipelineIdle
  /\ \/ \E h \in Hosts, x \in Suffixes, reg \in Registries :
          call = [fn |-> "image", at |-> "start", host |-> h, suffix |-> x, reg |-> reg,
                  normalized |-> Null, resolved |-> NoResolution, service |-> NoService]
     \/ \E e \in EnvMaps, s \in EnvMaps :
          call = [fn |-> "env", at |-> "start", app |-> [env |-> e, secrets |-> s],
                  service |-> [env |-> [k \in EnvKeys |-> NoValue], secrets |-> [k \in EnvKeys |-> NoValue]]]

\* normalizeLocalRegistry(app.image, intent)
NormalizeImage ==
  /\ call.fn = "image" /\ call.at = "start"
  /\ call' = [call EXCEPT !.at = "normalized",
                          !.normalized = normalizeLocalRegistry(ImageOf(call.host, call.suffix))]
  /\ UNCHANGED pipeline

\* resolveImageToDigest(normalizedImageRef, intent)
ResolveImage ==
  /\ call.fn = "image" /\ call.at = "normalized"
  /\ call' = [call EXCEPT !.at = "resolved",
                          !.resolved = resolveImageToDigest(call.normalized, call.reg)]
  /\ UNCHANGED pipeline

\* resolveServices(intent) for the app
ResolveServices ==
  /\ call.fn = "image" /\ call.at = "resolved"
  /\ call' = [call EXCEPT !.at = "service",
                          !.service = resolveApp(ImageOf(call.host, call.suffix), call.reg)]
  /\ UNCHANGED pipeline

\* resolveServices(intent): the environment of the app
ResolveEnv ==
  /\ call.fn = "env" /\ call.at = "start"
  /\ call' = [call EXCEPT !.at = "service", !.service = resolveAppEnv(call.app)]
  /\ UNCHANGED pipeline

NextDeployer == NormalizeImage \/ ResolveImage \/ ResolveServices \/ ResolveEnv
SpecDeployer == InitDeployer /\ [][NextDeployer]_vars

\* -------------------------------------------- properties (deployer)
ImageCallAt(ats) == call.fn = "image" /\ call.at \in ats
\* the tail of a reference after its first "@", <<>> when it has none
DigestPart(ref) == IF IndexOf(ref, At) = 0 THEN <<>> ELSE slice(ref, IndexOf(ref, At))

\* C13 (as claimed): for image registry://<repo>:<range>, with a registry
\* that answers and holds a tag matching the range, the resolved service's
\* imageDigest carries the digest the registry reports for the highest
\* matching tag.
C13_LocalRangeResolved ==
  (/\ ImageCallAt({"service"})
   /\ call.host = "registry://" /\ call.suffix = "caret"
   /\ call.reg.list = "ok" /\ call.reg.head = "ok"
   /\ matchSemverRange(<<V("^", 1, 0, 0)>>, call.reg.tags).found) =>
      DigestPart(call.service.imageDigest)
        = DigestOf(matchSemverRange(<<V("^", 1, 0, 0)>>, call.reg.tags).tag)

\* C14: service resolution never fails on a resolution miss; imageDigest is
\* the digest reference when resolution yields one and exactly the
\* normalized reference otherwise.
C14_MissFallsBackToNormalized ==
  ImageCallAt({"service"}) =>
     /\ ~call.service.threw
     /\ call.resolved.val # Null => call.service.imageDigest = call.resolved.val
     /\ call.resolved.val = Null => call.service.imageDigest = call.normalized

C14_Witness ==
  /\ ImageCallAt({"service"})
  /\ call.resolved.val = Null
  /\ call.resolved.requests # <<>>
  /\ call.normalized # ImageOf(call.host, call.suffix)
  /\ call.service.imageDigest = call.normalized

\* C15: resolveImageToDigest returns a digest reference or null and never
\* throws, whatever the reference and whatever the registry does.
C15_ResolveNeverThrows ==
  ImageCallAt({"resolved", "service"}) =>
     /\ ~call.resolved.threw
     /\ call.resolved.val = Null \/ DigestPart(call.resolved.val) # <<>>

C15_Witness ==
  /\ ImageCallAt({"resolved"})
  /\ call.reg.list = "ok" /\ call.reg.head \in {"down", "status", "nohdr"}
  /\ Len(call.resolved.requests) = 2
  /\ call.resolved.val = Null /\ ~call.resolved.threw

\* C16 (as claimed): a reference with a digest is returned unchanged; a
\* reference without a tag, or with the tag "latest", resolves to null and
\* the registry is not contacted.
C16_DigestKeptNonRangeSkipped ==
  ImageCallAt({"resolved", "service"}) =>
     /\ call.suffix = "digest" => call.resolved.val = call.normalized
     /\ call.suffix \in {"none", "latest"} =>
          (call.resolved.val = Null /\ call.resolved.requests = <<>>)

\* C17: a reference that begins with registry:// normalizes to
\* registry:5000/<rest>, which is also what the internal rewrite makes of
\* <registry-domain>/<rest>; a reference whose host is not the registry
\* domain is returned unchanged.
C17_PortablePrefixNormalized ==
  ImageCallAt({"normalized", "resolved", "service"}) =>
     /\ call.host = "registry://" =>
          /\ call.normalized = InternalPrefix \o RestOf(call.suffix)
          /\ call.normalized
               = rewriteRegistryToInternal(RegistryDomain \o <<Slash>> \o RestOf(call.suffix))
     /\ call.host \in {"internal", "external", "bare"} =>
          call.normalized = ImageOf(call.host, call.suffix)

C17_Witness ==
  /\ ImageCallAt({"normalized"})
  /\ call.host = "registry://" /\ call.suffix = "caret"
  /\ call.normalized = InternalPrefix \o Repository \o <<Colon, V("^", 1, 0, 0)>>

EnvCallDone == call.fn = "env" /\ call.at = "service"

NumDomains == 2      \* domains a service list can name
DnsTimeout == 3      \* largest timeoutSeconds tried
MaxLatency == 1      \* seconds an address-resolution call may take

DnsDomains == 1..NumDomains
RetryDelay == 2
Answers == {"addresses", "empty", "error"}
IdleDomain == [pc |-> "idle", elapsed |-> 0, hit |-> FALSE, calls |-> 0]

\* (variant: an empty list is refused)
validateDnsEntryRefuseEmpty(domains) == IF domains = {} THEN "failed" ELSE "checking"

\* if (domains.length === 0) return;
validateDnsEntry(domains) == IF domains = {} THEN "ok" ELSE "checking"

\* (variant: any answer that is not an error counts)
AttemptSucceedsUnlessError(answer) == answer # "error"

\* addresses.length > 0, and a rejected call is caught and retried
AttemptSucceeds(answer) == answer = "addresses"

InitDns ==
  /\ PipelineIdle
  /\ \E ds \in SUBSET DnsDomains, t \in 0..DnsTimeout :
       call = [fn |-> "dns", at |-> "start", domains |-> ds, timeout |-> t,
               dom |-> [d \in DnsDomains |-> IdleDomain], named |-> {}]

\* validateDns is entered: the empty list returns at once, otherwise every
\* domain's loop starts (startTime = Date.now())
ValidateDnsStart ==
  /\ call.fn = "dns" /\ call.at = "start"
  /\ call' = [call EXCEPT
       !.at = validateDnsEntry(call.domains),
       !.dom = [d \in DnsDomains |->
                  IF d \in call.domains /\ validateDnsEntry(call.domains) = "checking"
                  THEN [IdleDomain EXCEPT !.pc = "loop"] ELSE IdleDomain]]
  /\ UNCHANGED pipeline

\* while (Date.now() - startTime < timeoutSeconds * 1000): another call to
\* Deno.resolveDns is made, or the loop ends with success: false
DnsLoop(d) ==
  /\ call.fn = "dns" /\ call.at = "checking" /\ call.dom[d].pc = "loop"
  /\ call' = IF call.dom[d].elapsed < call.timeout
             THEN [call EXCEPT !.dom[d].pc = "resolving", !.dom[d].calls = @ + 1]
             ELSE [call EXCEPT !.dom[d].pc = "timeout"]
  /\ UNCHANGED pipeline

\* the call settles after some time with addresses, with none, or rejects
DnsAnswer(d) ==
  /\ call.fn = "dns" /\ call.at = "checking" /\ call.dom[d].pc = "resolving"
  /\ \E answer \in Answers, latency \in 0..MaxLatency :
       call' = [call EXCEPT
         !.dom[d].elapsed = @ + latency,
         !.dom[d].hit = @ \/ answer = "addresses",
         !.dom[d].pc = IF AttemptSucceeds(answer) THEN "success" ELSE "sleep"]
  /\ UNCHANGED pipeline

\* await new Promise((resolve) => setTimeout(resolve, 2000))
DnsRetry(d) ==
  /\ call.fn = "dns" /\ call.at = "checking" /\ call.dom[d].pc = "sleep"
  /\ call' = [call EXCEPT !.dom[d].elapsed = @ + RetryDelay, !.dom[d].pc = "loop"]
  /\ UNCHANGED pipeline

\* (variant: the await ends with the first loop that ends)
PromiseAllSettledFirst == \E d \in call.domains : call.dom[d].pc \in {"success", "timeout"}

\* await Promise.all(...): validateSingleDomain never rejects, so the
\* promise settles when the loop of every domain has returned
PromiseAllSettled == \A d \in call.domains : call.dom[d].pc \in {"success", "timeout"}

\* Promise.all has settled: throw one DnsError naming the failed domains,
\* or return
ValidateDnsEnd ==
  /\ call.fn = "dns" /\ call.at = "checking"
  /\ PromiseAllSettled
  /\ LET failed == {d \in call.domains : call.dom[d].pc # "success"} IN
       call' = [call EXCEPT !.at = IF failed # {} THEN "failed" ELSE "ok", !.named = failed]
  /\ UNCHANGED pipeline

NextDns ==
  \/ ValidateDnsStart
  \/ \E d \in DnsDomains : DnsLoop(d) \/ DnsAnswer(d) \/ DnsRetry(d)
  \/ ValidateDnsEnd
SpecDns == InitDns /\ [][NextDns]_vars

\* ------------------------------------------------ properties (DNS gate)
DnsGateEnded == call.fn = "dns" /\ call.at \in {"ok", "failed"}

\* C19: the gate succeeds exactly when every given domain got an answer
\* with at least one address on some attempt made within its timeout;
\* otherwise it fails with one error that names exactly the domains that
\* never did.  An attempt that errors or returns nothing is retried 2
\* seconds later, and a domain is given up only once its time is used up.
C19_GateVerdict ==
  /\ DnsGateEnded =>
       /\ call.at = "ok" <=> \A d \in call.domains : call.dom[d].hit
       /\ call.at = "failed" => call.named = {d \in call.domains : ~call.dom[d].hit}
       /\ call.at = "ok" => call.named = {}
  /\ call.fn = "dns" =>
       \A d \in DnsDomains :
          /\ call.dom[d].pc = "timeout" => (~call.dom[d].hit /\ call.dom[d].elapsed >= call.timeout)
          /\ call.dom[d].pc = "sleep" => ~call.dom[d].hit

C19_RetryAfterDelay ==
  \A d \in DnsDomains :
     (call.fn = "dns" /\ call.dom[d].pc = "sleep" /\ call'.dom[d].pc # "sleep") =>
        (call'.dom[d].pc = "loop" /\ call'.dom[d].elapsed = call.dom[d].elapsed + RetryDelay)

C19_DnsGate == []C19_GateVerdict /\ [][C19_RetryAfterDelay]_vars

C19_Witness ==
  /\ call.fn = "dns" /\ call.at = "failed"
  /\ call.domains = DnsDomains
  /\ call.named = {1}
  /\ call.dom[1].calls >= 2
  /\ \A d \in DnsDomains \ {1} : call.dom[d].hit /\ call.dom[d].calls >= 2

\* C20: called with an empty domain list the gate returns success and no
\* address-resolution call is made.
C20_EmptyListNoCalls ==
  (call.fn = "dns" /\ call.domains = {} /\ call.at # "start") =>
     /\ call.at = "ok"
     /\ \A d \in DnsDomains : call.dom[d].calls = 0 /\ call.dom[d].pc = "idle"

C20_Witness ==
  /\ call.fn = "dns" /\ call.at = "ok" /\ call.domains = {}
  /\ call.timeout > 0
  /\ \A d \in DnsDomains : call.dom[d].calls = 0

\* C21 (as claimed): the DNS gate enforces its deadline, so no domain's
\* loop is ever found running (or ended) later than its timeout.
C21_LoopWithinBudget ==
  call.fn = "dns" => \A d \in DnsDomains : call.dom[d].elapsed <= call.timeout

\* ===================================================================
\* The health monitor (health.ts): waitForHealthy polls `docker inspect`
\* for every container, returns when all are healthy, throws when one has
\* failed, sleeps 2 s otherwise; the deadline is looked at before a poll.
NumContainers == 2   \* containers a call can name
HealthTimeout == 3   \* largest timeoutSeconds tried

Containers == 1..NumContainers
PollDelay == 2
\* what `docker inspect --format {{.State.Status}}|{{.State.Health.Status}}`
\* gives for one container: a failure, or the two fields (health "" when
\* the container declares no health check)
NotInspected == [success |-> FALSE, status |-> "-", healthStatus |-> "-"]
InspectOutputs ==
  {[success |-> FALSE, status |-> "", healthStatus |-> ""]}
    \cup [success : {TRUE}, status : {"running"}, healthStatus : {"", "healthy", "unhealthy", "starting"}]
    \cup [success : {TRUE}, status : {"exited"}, healthStatus : {"", "unhealthy"}]

\* (variant: a failed inspection is read as an exited container)
getContainerHealthFailedAsExited(o) ==
  IF ~o.success THEN [status |-> "exited", health |-> "none"]
  ELSE [status |-> o.status, health |-> IF o.healthStatus = "" THEN "none" ELSE o.healthStatus]

\* getContainerHealth: "unknown"/"none" when the command fails, else the
\* two fields with an empty health read as "none"
getContainerHealth(o) ==
  IF ~o.success THEN [status |-> "unknown", health |-> "none"]
  ELSE [status |-> o.status, health |-> IF o.healthStatus = "" THEN "none" ELSE o.healthStatus]

\* (variant: only a reported "healthy" counts)
allHealthyStrict(names, outs) ==
  \A c \in names : getContainerHealth(outs[c]).status = "running"
                   /\ getContainerHealth(outs[c]).health = "healthy"

\* health.every(c => c.status === "running" && (c.health === "healthy" || c.health === "none"))
allHealthy(names, outs) ==
  \A c \in names : getContainerHealth(outs[c]).status = "running"
                   /\ getContainerHealth(outs[c]).health \in {"healthy", "none"}

\* (variant: only exited containers count as failed)
failedContainersExitedOnly(names, outs) ==
  {c \in names : getContainerHealth(outs[c]).status = "exited"}

\* health.filter(c => c.health === "unhealthy" || c.status === "exited")
failedContainers(names, outs) ==
  {c \in names : getContainerHealth(outs[c]).health = "unhealthy"
                 \/ getContainerHealth(outs[c]).status = "exited"}

NoError == [class |-> "none", text |-> "none", names |-> {}]
\* new HealthCheckError(`Containers failed health checks: ${names}`)
FailedError(names) == [class |-> "HealthCheckError", text |-> "Containers failed health checks", names |-> names]

\* (variant: the deadline is reported with the text of a container failure)
TimeoutErrorAsFailure == FailedError({})

\* new HealthCheckError(`Health check timeout after ${timeoutSeconds}s`)
TimeoutError == [class |-> "HealthCheckError", text |-> "Health check timeout", names |-> {}]

InitHealth ==
  /\ PipelineIdle
  /\ \E cs \in SUBSET Containers, t \in 0..HealthTimeout :
       call = [fn |-> "health", at |-> "loop", names |-> cs, timeout |-> t, elapsed |-> 0,
               polls |-> 0, outs |-> [c \in Containers |-> NotInspected], err |-> NoError]

\* top of the loop: elapsed > timeoutMs throws, otherwise every container
\* is inspected
HealthLoop ==
  /\ call.fn = "health" /\ call.at = "loop"
  /\ call' = IF call.elapsed > call.timeout
             THEN [call EXCEPT !.at = "failed", !.err = TimeoutError]
             ELSE [call EXCEPT !.at = "polling", !.polls = @ + 1]
  /\ UNCHANGED pipeline

\* the inspections settle: return, throw, or sleep
HealthPoll ==
  /\ call.fn = "health" /\ call.at = "polling"
  /\ \E outs \in [Containers -> InspectOutputs \cup {NotInspected}], latency \in 0..MaxLatency :
       /\ \A c \in Containers : outs[c] = NotInspected <=> c \notin call.names
       /\ call' = [call EXCEPT
            !.outs = outs,
            !.elapsed = @ + latency,
            !.at = IF allHealthy(call.names, outs) THEN "ok"
                   ELSE IF failedContainers(call.names, outs) # {} THEN "failed"
                   ELSE "sleep",
            !.err = IF ~allHealthy(call.names, outs) /\ failedContainers(call.names, outs) # {}
                    THEN FailedError(failedContainers(call.names, outs)) ELSE NoError]
  /\ UNCHANGED pipeline

\* await new Promise((resolve) => setTimeout(resolve, 2000))
HealthSleep ==
  /\ call.fn = "health" /\ call.at = "sleep"
  /\ call' = [call EXCEPT !.elapsed = @ + PollDelay, !.at = "loop"]
  /\ UNCHANGED pipeline

NextHealth == HealthLoop \/ HealthPoll \/ HealthSleep
SpecHealth == InitHealth /\ [][NextHealth]_vars

\* ------------------------------------------ properties (health monitor)
\* the latest poll has settled
Polled == call.fn = "health" /\ call.polls > 0 /\ call.at # "polling"
\* containers the latest poll saw exited or unhealthy
SeenFailed == {c \in call.names : call.outs[c].success
                 /\ (call.outs[c].status = "exited" \/ call.outs[c].healthStatus = "unhealthy")}
\* the latest poll saw every container running and healthy or without a
\* health check
SeenConverged == \A c \in call.names : call.outs[c].success /\ call.outs[c].status = "running"
                                         /\ call.outs[c].healthStatus \in {"healthy", ""}

\* C22: a poll that sees a container exited or unhealthy ends the monitor
\* at that poll (no sleep, no further poll) with an error naming exactly
\* the containers that poll saw exited or unhealthy.
C22_FailFastNamesFailed ==
  (Polled /\ SeenFailed # {}) =>
     /\ call.at = "failed"
     /\ call.err.text = FailedError({}).text
     /\ call.err.names = SeenFailed

C22_Witness ==
  /\ Polled /\ call.at = "failed" /\ call.names = Containers
  /\ call.polls = 2 /\ call.elapsed < call.timeout
  /\ call.err.names = {1}
  /\ call.outs[1].status = "running" /\ call.outs[1].healthStatus = "unhealthy"

\* C23: the monitor returns at the first poll that sees every container
\* running with health healthy or none, and returns at no other poll.
C23_SucceedsExactlyOnConvergence ==
  /\ Polled => (call.at = "ok" <=> SeenConverged)
  /\ (call.fn = "health" /\ call.at = "ok") => Polled

C23_Witness ==
  /\ Polled /\ call.at = "ok" /\ call.names = Containers /\ call.polls = 2
  /\ call.outs[1].healthStatus = "" /\ call.outs[2].healthStatus = "healthy"

\* C24: when the monitor has ended and no poll saw a failed container or a
\* converged set, it ended with the timeout error, after its timeout, and
\* that error differs from every container-failure error.
C24_TimeoutErrorDistinct ==
  (/\ call.fn = "health" /\ call.at \in {"ok", "failed"}
   /\ call.polls = 0 \/ (SeenFailed = {} /\ ~SeenConverged)) =>
     /\ call.at = "failed"
     /\ call.err.class = "HealthCheckError"
     /\ call.err.text = "Health check timeout"
     /\ \A ns \in SUBSET Containers : call.err # FailedError(ns)
     /\ call.elapsed > call.timeout

C24_Witness ==
  /\ call.fn = "health" /\ call.at = "failed" /\ call.err = TimeoutError
  /\ call.names = Containers /\ call.polls >= 2
  /\ call.outs[1].healthStatus = "starting"

\* ===================================================================
\* Intent validation (validator.ts): validateIntent parses the document
\* against the schema, then checks app names, domains and health checks
\* in that order, and returns the parsed intent.  Documents are JSON
\* values as JSON.parse delivers them; the fields the checks below do not
\* read (image, port, env, credentials) hold fixed valid values.
MaxApps == 2   \* apps in a document

\* a JSON number as JSON.parse delivers it (1e999 reads as Infinity), an
\* absent field, and the null JSON.stringify writes for a non-finite number
Num(n) == V("num", n, 0, 0)
Infinity == T("Infinity")
Undefined == T("undefined")
JsonNull == T("null")
\* a string field: absent, or a text (a sequence of tokens)
NoString == [def |-> FALSE, s |-> <<>>]
Str(s) == [def |-> TRUE, s |-> s]

RESERVED_NAMES == {"caddy", "registry", "tower", "otel-lgtm", "otel", "loki", "tempo", "grafana"}
\* names tried: two good ones, a reserved one, one APP_NAME_REGEX refuses
AppNames == {"api", "web", "caddy", "Api"}
DomainNames == {"tower.example.com", "registry.example.com", "otel.example.com", "app.example.com"}
NoHealthCheck ==
  [present |-> FALSE, path |-> NoString, port |-> Undefined, interval |-> Undefined,
   timeout |-> Undefined, retries |-> Undefined]
HealthChecks ==
  [present : {TRUE},
   path : {NoString, Str(<<>>), Str(<<Slash, T("health")>>), Str(<<T("health")>>)},
   port : {Undefined, Num(3000), Infinity},
   interval : {Undefined, Num(0), Num(1), Num(5), Num(300), Num(301)},
   timeout : {Undefined, Num(0), Num(1), Num(60), Num(61)},
   retries : {Undefined, Num(-1), Num(0), Num(10), Num(11)}]

\* v.number(): a number that is not NaN; v.optional lets the field be absent
IsNumber(x) == x.k \in {"num", "Infinity"}
OptionalNumber(x) == x = Undefined \/ IsNumber(x)
\* x ?? d
OrDefault(x, d) == IF x = Undefined THEN Num(d) ELSE x
\* numeric comparisons, Infinity above every number
Less(x, y) == x.k = "num" /\ (y.k = "Infinity" \/ x.a < y.a)

\* v.safeParse(intentSchema, data).success
SchemaAccepts(doc) ==
  /\ doc.version = "1"
  /\ \A i \in 1..Len(doc.apps) :
       /\ doc.apps[i].name \in {"api", "web", "caddy"}
       /\ doc.apps[i].healthCheck.present =>
            /\ OptionalNumber(doc.apps[i].healthCheck.port)
            /\ OptionalNumber(doc.apps[i].healthCheck.interval)
            /\ OptionalNumber(doc.apps[i].healthCheck.timeout)
            /\ OptionalNumber(doc.apps[i].healthCheck.retries)
\* result.output: v.object keeps the declared keys only
SchemaOutput(doc) == [doc EXCEPT !.extra = FALSE]

\* (variant: reserved names are let through)
NameErrorDuplicatesOnly(apps, i) ==
  IF \E j \in 1..(i - 1) : apps[j].name = apps[i].name THEN "Duplicate app name"
  ELSE "none"

\* the body of the first loop for app i
NameError(apps, i) ==
  IF \E j \in 1..(i - 1) : apps[j].name = apps[i].name THEN "Duplicate app name"
  ELSE IF apps[i].name \in RESERVED_NAMES THEN "App name is reserved"
  ELSE "none"

\* the body of the second loop for app i: allDomains holds the three
\* infrastructure domains and the domains of the apps before i
DomainError(intent, i) ==
  IF intent.apps[i].domain \in {intent.tower, intent.registry, intent.otel}
                                 \cup {intent.apps[j].domain : j \in 1..(i - 1)}
  THEN "Domain is already used" ELSE "none"

\* validateHealthCheckConstraints; `healthCheck.path && ...` skips an
\* absent path and an empty one
validateHealthCheckConstraints(hc) ==
  IF ~Less(OrDefault(hc.timeout, 5), OrDefault(hc.interval, 10))
    THEN "timeout must be less than interval"
  ELSE IF Less(OrDefault(hc.interval, 10), Num(1)) \/ Less(Num(300), OrDefault(hc.interval, 10))
    THEN "interval must be between 1 and 300"
  ELSE IF Less(OrDefault(hc.timeout, 5), Num(1)) \/ Less(Num(60), OrDefault(hc.timeout, 5))
    THEN "timeout must be between 1 and 60"
  ELSE IF Less(OrDefault(hc.retries, 3), Num(0)) \/ Less(Num(10), OrDefault(hc.retries, 3))
    THEN "retries must be between 0 and 10"
  ELSE IF hc.path.def /\ hc.path.s # <<>> /\ ~startsWith(hc.path.s, <<Slash>>)
    THEN "path must start with /"
  ELSE "none"

\* the body of the third loop for app i
AppError(intent, i) ==
  IF intent.apps[i].healthCheck.present
  THEN validateHealthCheckConstraints(intent.apps[i].healthCheck) ELSE "none"

\* the message of the first iteration of a loop that throws, "none" when
\* the loop ends
FirstError(n, err(_)) ==
  IF \E i \in 1..n : err(i) # "none"
  THEN err(CHOOSE i \in 1..n : err(i) # "none" /\ \A j \in 1..(i - 1) : err(j) = "none")
  ELSE "none"

NoIntent == [version |-> "-", extra |-> FALSE, tower |-> "-", registry |-> "-", otel |-> "-", apps |-> <<>>]
Accepted(intent) == [threw |-> FALSE, class |-> "none", message |-> "none", intent |-> intent]
ValidationError(message) == [threw |-> TRUE, class |-> "ValidationError", message |-> message, intent |-> NoIntent]
NotValidated == [threw |-> FALSE, class |-> "none", message |-> "not run", intent |-> NoIntent]

\* validateIntent, on the fields of the document
validateIntentData(data) ==
  LET intent == SchemaOutput(data)
      n == Len(intent.apps)
      nameError(i) == NameError(intent.apps, i)
      domainError(i) == DomainError(intent, i)
      appError(i) == AppError(intent, i)
  IN  IF ~SchemaAccepts(data) THEN ValidationError("Intent validation failed")
      ELSE IF FirstError(n, nameError) # "none" THEN ValidationError(FirstError(n, nameError))
      ELSE IF FirstError(n, domainError) # "none" THEN ValidationError(FirstError(n, domainError))
      ELSE IF FirstError(n, appError) # "none" THEN ValidationError(FirstError(n, appError))
      ELSE Accepted(intent)

\* JSON.stringify writes a finite number as itself, a non-finite one as
\* null, and leaves out a field that is undefined
stringifyNumber(x) == IF x.k = "Infinity" THEN JsonNull ELSE x
\* the document read back from JSON.stringify(intent)
serialize(intent) ==
  [intent EXCEPT !.apps = [i \in 1..Len(intent.apps) |->
     [intent.apps[i] EXCEPT !.healthCheck =
        IF ~intent.apps[i].healthCheck.present THEN NoHealthCheck
        ELSE [present |-> TRUE,
              path |-> intent.apps[i].healthCheck.path,
              port |-> stringifyNumber(intent.apps[i].healthCheck.port),
              interval |-> stringifyNumber(intent.apps[i].healthCheck.interval),
              timeout |-> stringifyNumber(intent.apps[i].healthCheck.timeout),
              retries |-> stringifyNumber(intent.apps[i].healthCheck.retries)]]]]

\* documents about names and domains: any infrastructure domains, up to
\* MaxApps apps without health checks
RECURSIVE AppLists(_)
AppLists(n) ==
  IF n = 0 THEN {<<>>}
  ELSE AppLists(n - 1) \cup
       {Append(l, [name |-> nm, domain |-> d, healthCheck |-> NoHealthCheck]) :
          l \in {x \in AppLists(n - 1) : Len(x) = n - 1}, nm \in AppNames, d \in DomainNames}
NamingDocuments ==
  {[version |-> "1", extra |-> FALSE, tower |-> t, registry |-> r, otel |-> o, apps |-> l] :
     t \in DomainNames, r \in DomainNames, o \in DomainNames, l \in AppLists(MaxApps)}
\* documents about health checks: one app, any health check, any schema
\* version, with or without a key the schema does not declare
HealthDocuments ==
  {[version |-> ver, extra |-> e, tower |-> "tower.example.com", registry |-> "registry.example.com",
    otel |-> "otel.example.com",
    apps |-> <<[name |-> "api", domain |-> "app.example.com", healthCheck |-> hc]>>] :
     ver \in {"1", "2"}, e \in BOOLEAN, hc \in HealthChecks}

InitValidator ==
  /\ PipelineIdle
  /\ \E data \in NamingDocuments \cup HealthDocuments :
       call = [fn |-> "validate", at |-> "start", data |-> data, first |-> NotValidated,
               text |-> NoIntent, second |-> NotValidated]

\* validate(x)
Validate ==
  /\ call.fn = "validate" /\ call.at = "start"
  /\ call' = [call EXCEPT !.at = "validated", !.first = validateIntentData(call.data)]
  /\ UNCHANGED pipeline

\* serialize(validate(x)): the accepted intent is written as JSON
Serialize ==
  /\ call.fn = "validate" /\ call.at = "validated" /\ ~call.first.threw
  /\ call' = [call EXCEPT !.at = "serialized", !.text = serialize(call.first.intent)]
  /\ UNCHANGED pipeline

\* validate(serialize(validate(x))): the written document is read back
Revalidate ==
  /\ call.fn = "validate" /\ call.at = "serialized"
  /\ call' = [call EXCEPT !.at = "revalidated", !.second = validateIntentData(call.text)]
  /\ UNCHANGED pipeline

NextValidator == Validate \/ Serialize \/ Revalidate
SpecValidator == InitValidator /\ [][NextValidator]_vars

\* ---------------------------------------- properties (intent validation)
Validated == call.fn = "validate" /\ call.at # "start"
\* the domains of all services of a document, infrastructure first
ServiceDomains(doc) ==
  <<doc.tower, doc.registry, doc.otel>> \o [i \in 1..Len(doc.apps) |-> doc.apps[i].domain]
SharesDomain(doc) ==
  \E i, j \in 1..(3 + Len(doc.apps)) : i # j /\ ServiceDomains(doc)[i] = ServiceDomains(doc)[j]
NamesFine(doc) ==
  \A i \in 1..Len(doc.apps) :
    /\ doc.apps[i].name \notin RESERVED_NAMES
    /\ \A j \in 1..Len(doc.apps) : i # j => doc.apps[i].name # doc.apps[j].name

\* C25 (as claimed): a document in which two services share a domain is
\* rejected with a ValidationError, the domain-conflict one when no earlier
\* check (schema, app names) has refused the document.
C25_SharedDomainRejected ==
  (Validated /\ SharesDomain(call.data)) =>
     /\ call.first.threw /\ call.first.class = "ValidationError"
     /\ (SchemaAccepts(call.data) /\ NamesFine(call.data)) =>
          call.first.message = "Domain is already used"

\* C26: an accepted intent has pairwise-distinct app names outside the
\* reserved set, and a document whose app names repeat or are reserved is
\* rejected with a ValidationError.
C26_AppNamesDistinctUnreserved ==
  Validated =>
     /\ ~call.first.threw => NamesFine(call.first.intent)
     /\ ~NamesFine(call.data) => (call.first.threw /\ call.first.class = "ValidationError")

C26_Witness ==
  /\ Validated /\ ~call.first.threw /\ Len(call.first.intent.apps) = 2
  /\ call.first.intent.apps[1].name = "web" /\ call.first.intent.apps[2].name = "api"

\* the value of a field after its default
FieldValue(x, d) == IF x = Undefined THEN d ELSE IF x.k = "num" THEN x.a ELSE 1000000
\* C27 (as claimed): every health check of an accepted intent has
\* timeout < interval, interval in 1..300, timeout in 1..60, retries in
\* 0..10 (defaults 10, 5, 3), and its path, when it has one, starts
\* with "/".
C27_HealthCheckInvariants ==
  (Validated /\ ~call.first.threw) =>
     \A i \in 1..Len(call.first.intent.apps) :
        LET hc == call.first.intent.apps[i].healthCheck IN
        hc.present =>
          /\ FieldValue(hc.timeout, 5) < FieldValue(hc.interval, 10)
          /\ FieldValue(hc.interval, 10) \in 1..300
          /\ FieldValue(hc.timeout, 5) \in 1..60
          /\ FieldValue(hc.retries, 3) \in 0..10
          /\ hc.path.def => (Len(hc.path.s) > 0 /\ hc.path.s[1] = Slash)

\* C28 (as claimed): an accepted intent, written as JSON and validated
\* again, is accepted with the same result.
C28_ValidateRoundTrip ==
  (call.fn = "validate" /\ call.at = "revalidated") => call.second = call.first

\* ===================================================================
\* The range matcher on tag lists (semver.ts): the tags that look like
\* semver and match the range are sorted with compareSemver, the sorted
\* list is reversed and its first element returned.
MaxTagList == 3   \* tags in a list

\* the sign Array.prototype.sort reads from compareSemver(a, b): the parts
\* are Number(...) of the text between the dots, so the patch of a tag with
\* a suffix is NaN, the difference is NaN, and sort reads NaN as 0
compareSemver(x, y) ==
  IF x.a # y.a THEN (IF x.a < y.a THEN -1 ELSE 1)
  ELSE IF x.b # y.b THEN (IF x.b < y.b THEN -1 ELSE 1)
  ELSE IF x.k = "pre" \/ y.k = "pre" THEN 0
  ELSE IF x.c # y.c THEN (IF x.c < y.c THEN -1 ELSE 1)
  ELSE 0

\* compareSemver is a consistent comparator on the elements of the list
Consistent(list) ==
  \A i, j, k \in 1..Len(list) :
    /\ (compareSemver(list[i], list[j]) = 0 /\ compareSemver(list[j], list[k]) = 0)
         => compareSemver(list[i], list[k]) = 0
    /\ (compareSemver(list[i], list[j]) < 0 /\ compareSemver(list[j], list[k]) < 0)
         => compareSemver(list[i], list[k]) < 0

\* list.sort(compareSemver), the lists it can leave.  With a consistent
\* comparator: the sorted list, equal elements in their old order.
\* compareSemver is not consistent on tags with a suffix; the order is
\* then the engine's, taken here as any arrangement in which no element
\* is followed by one the comparator puts before it (a list without such
\* a pair is left as it is)
sort(list) ==
  LET n == Len(list)
      perms == {f \in [1..n -> 1..n] : \A i, j \in 1..n : f[i] = f[j] => i = j}
      inOrder(f, i, j) == \/ compareSemver(list[f[i]], list[f[j]]) < 0
                          \/ compareSemver(list[f[i]], list[f[j]]) = 0 /\ f[i] < f[j]
  IN  IF Consistent(list)
      THEN {[i \in 1..n |-> list[f[i]]] : f \in {g \in perms : \A i, j \in 1..n : i < j => inOrder(g, i, j)}}
      ELSE {l \in {[i \in 1..n |-> list[f[i]]] : f \in perms} :
              \A i \in 1..(n - 1) : compareSemver(l[i], l[i + 1]) <= 0}

reverse(list) == [i \in 1..Len(list) |-> list[Len(list) + 1 - i]]

\* (variant: the matching tags are kept without their "v")
matchesNormalized(range, tags) ==
  LET kept == SelectSeq(tags, LAMBDA tag : isSemverTag(tag) /\ RangeMatches(range, tag))
  IN  [i \in 1..Len(kept) |-> normalizeTag(kept[i])]

\* tags.filter(isSemverTag).filter(matcher)
matches(range, tags) == SelectSeq(tags, LAMBDA tag : isSemverTag(tag) /\ RangeMatches(range, tag))

\* matchSemverRange(range, tags): the values the call can return
matchSemverRangeList(range, tags) ==
  IF matches(range, tags) = <<>> THEN {[found |-> FALSE, tag |-> T("none")]}
  ELSE {[found |-> TRUE, tag |-> reverse(sorted)[1]] : sorted \in sort(matches(range, tags))}

\* tags tried: versions with and without "v" and suffix, and a name
SemverTags ==
  {V("ver", 1, 2, 0), V("ver", 1, 2, 3), V("ver", 1, 3, 0), V("ver", 2, 0, 0),
   V("pre", 1, 2, 1), V("v", 1, 1, 0), T("latest")}
\* ["1.2.0", "1.2.3", "1.3.0", "2.0.0"]
ExampleTags == <<V("ver", 1, 2, 0), V("ver", 1, 2, 3), V("ver", 1, 3, 0), V("ver", 2, 0, 0)>>
RECURSIVE TagLists(_)
TagLists(n) ==
  IF n = 0 THEN {<<>>}
  ELSE TagLists(n - 1) \cup
       {Append(l, t) : l \in {x \in TagLists(n - 1) : Len(x) = n - 1}, t \in SemverTags}
\* ^1.2.0, ~1.2.0, 1.2.3, v1.1.0 written without its "v", latest,
\* ^1.2.3, ~1.2.3, 1.*, 1.2.*
SemverRanges ==
  {<<V("^", 1, 2, 0)>>, <<V("~", 1, 2, 0)>>, <<V("ver", 1, 2, 3)>>, <<V("ver", 1, 1, 0)>>, <<T("latest")>>,
   <<V("^", 1, 2, 3)>>, <<V("~", 1, 2, 3)>>, <<V("*", 1, 0, 1)>>, <<V("*", 1, 2, 2)>>}
NoMatchYet == [found |-> FALSE, tag |-> T("not run")]

InitSemver ==
  /\ PipelineIdle
  /\ \E range \in SemverRanges, tags \in TagLists(MaxTagList) \cup {ExampleTags} :
       call = [fn |-> "semver", at |-> "start", range |-> range, tags |-> tags, result |-> NoMatchYet]

MatchSemver ==
  /\ call.fn = "semver" /\ call.at = "start"
  /\ \E result \in matchSemverRangeList(call.range, call.tags) :
       call' = [call EXCEPT !.at = "done", !.result = result]
  /\ UNCHANGED pipeline

NextSemver == MatchSemver
SpecSemver == InitSemver /\ [][NextSemver]_vars

\* ------------------------------------------- properties (range matcher)
Matched == call.fn = "semver" /\ call.at = "done"
\* the tags of the list that have the form X.Y.Z
Candidates == {call.tags[i] : i \in 1..Len(call.tags)} \ {T("latest")}
\* numeric comparison by major, then minor, then patch
Greater(x, y) ==
  \/ x.a > y.a
  \/ x.a = y.a /\ x.b > y.b
  \/ x.a = y.a /\ x.b = y.b /\ x.c > y.c

\* C29 (as claimed): for a caret range ^X.Y.Z a tag is returned exactly
\* when some candidate has major X and minor >= Y, the returned tag is one
\* of these and none of these is greater; the example list gives 1.3.0.
C29_CaretAcceptsAndPicksHighest ==
  (Matched /\ call.range[1].k = "^") =>
     LET accepted == {t \in Candidates : t.a = call.range[1].a /\ t.b >= call.range[1].b} IN
     /\ call.result.found <=> accepted # {}
     /\ call.result.found =>
          /\ call.result.tag \in accepted
          /\ \A t \in accepted : ~Greater(t, call.result.tag)
     /\ call.tags = ExampleTags => call.result.tag = V("ver", 1, 3, 0)

\* C30 (as claimed): null is returned exactly when no candidate matches
\* the range; otherwise the returned tag is a matching candidate and no
\* matching candidate is greater by major, minor, patch.
C30_ReturnsGreatestMatch ==
  Matched =>
     LET matching == {t \in Candidates : RangeMatches(call.range, t)} IN
     /\ call.result.found <=> matching # {}
     /\ call.result.found =>
          /\ call.result.tag \in matching
          /\ \A t \in matching : ~Greater(t, call.result.tag)

\* C34 (as claimed): the tag returned for ^X.Y.Z is at least X.Y.Z and
\* below (X+1).0.0, the tag returned for ~X.Y.Z is at least X.Y.Z and
\* below X.(Y+1).0.
C34_RangeLowerBound ==
  (Matched /\ call.range[1].k \in {"^", "~"} /\ call.result.found) =>
     LET r == call.range[1]
         t == call.result.tag
     IN  /\ ~Greater(r, t)
         /\ t.a = r.a
         /\ r.k = "~" => t.b = r.b

\* C35 (as claimed): the range 1.* matches every candidate X.Y.Z with
\* major 1, the range 1.2.* matches every candidate 1.2.P, and when there
\* is such a candidate a tag is returned.
C35_WildcardMatches ==
  (Matched /\ call.range[1].k = "*") =>
     LET r == call.range[1]
         expected == {t \in Candidates : t.k \in {"ver", "v"} /\ t.a = r.a /\ (r.c >= 2 => t.b = r.b)}
     IN  /\ \A t \in expected : RangeMatches(call.range, t)
         /\ expected # {} => call.result.found

\* C39: a returned tag is an element of the input list as it was given
\* (a leading "v" included), and the matcher of the range accepts it.
C39_ResultIsInputTag ==
  (Matched /\ call.result.found) =>
     /\ \E i \in 1..Len(call.tags) : call.tags[i] = call.result.tag
     /\ isSemverTag(call.result.tag)
     /\ RangeMatches(call.range, call.result.tag)

C39_Witness ==
  /\ Matched /\ call.result.found /\ call.result.tag = V("v", 1, 1, 0)
  /\ call.range = <<V("ver", 1, 1, 0)>> /\ Len(call.tags) = 3

\* containers whose inspection failed at the latest poll
SeenUninspected == {c \in call.names : ~call.outs[c].success}
\* C38: a poll at which a container's inspection fails does not make the
\* monitor return, does not name that container in a failure error, and,
\* when no other container is seen exited or unhealthy, does not end the
\* monitor: it sleeps and polls again, and if it has ended it ended with
\* the timeout error after its timeout.
C38_UninspectedNeitherHealthyNorFailed ==
  (Polled /\ SeenUninspected # {}) =>
     /\ call.at # "ok"
     /\ call.err.names \cap SeenUninspected = {}
     /\ SeenFailed = {} =>
          \/ call.at \in {"sleep", "loop"}
          \/ call.at = "failed" /\ call.err = TimeoutError /\ call.elapsed > call.timeout

C38_Witness ==
  /\ Polled /\ call.at = "failed" /\ call.err = TimeoutError /\ call.polls >= 2
  /\ call.names = Containers /\ SeenUninspected = {1}
  /\ call.outs[2].status = "running" /\ call.outs[2].healthStatus = "healthy"

\* ===================================================================
\* Basic credentials (http.ts): basicAuth builds the header value the
\* client sends, parseBasicAuth reads it back on the server.  Texts are
\* sequences of characters.
MaxText == 3   \* characters in a username or password

Chars == {"a", "b", ":"}
RECURSIVE Texts(_, _)
Texts(alphabet, n) ==
  IF n = 0 THEN {<<>>}
  ELSE Texts(alphabet, n - 1) \cup
       {Append(t, ch) : t \in {x \in Texts(alphabet, n - 1) : Len(x) = n - 1}, ch \in alphabet}

\* btoa / atob, character by character: the code of a character, and the
\* character of a code (atob throws on anything that is not a code)
Code(ch) == IF ch = "a" THEN "YQ" ELSE IF ch = "b" THEN "Yg" ELSE "Og"
Codes == {Code(ch) : ch \in Chars}
btoa(text) == [i \in 1..Len(text) |-> Code(text[i])]
Decodes(enc) == \A i \in 1..Len(enc) : enc[i] \in Codes
atob(enc) == [i \in 1..Len(enc) |-> CHOOSE ch \in Chars : Code(ch) = enc[i]]

\* basicAuth(username, password): "Basic " + btoa(username + ":" + password)
basicAuth(username, password) == <<"Basic ">> \o btoa(username \o <<":">> \o password)

\* text.split(":"): the pieces between the colons
RECURSIVE split(_)
split(text) ==
  IF \A i \in 1..Len(text) : text[i] # ":" THEN <<text>>
  ELSE LET i == CHOOSE k \in 1..Len(text) : text[k] = ":" /\ \A j \in 1..(k - 1) : text[j] # ":"
       IN  <<SubSeq(text, 1, i - 1)>> \o split(SubSeq(text, i + 1, Len(text)))
\* text.split(":", 2): at most the first two pieces, the rest is dropped
splitLimit2(text) == SubSeq(split(text), 1, IF Len(split(text)) < 2 THEN Len(split(text)) ELSE 2)

NoCredentials == [ok |-> FALSE, username |-> <<>>, password |-> <<>>, hasPassword |-> FALSE]
\* parseBasicAuth(header); `const [username, password] = ...` leaves the
\* password undefined when there is one piece only
parseBasicAuth(header) ==
  IF ~startsWith(header, <<"Basic ">>) THEN NoCredentials
  ELSE IF ~Decodes(slice(header, 1)) THEN NoCredentials
  ELSE LET pieces == splitLimit2(atob(slice(header, 1)))
       IN  [ok |-> TRUE, username |-> pieces[1],
            password |-> IF Len(pieces) >= 2 THEN pieces[2] ELSE <<>>,
            hasPassword |-> Len(pieces) >= 2]

InitBasic ==
  /\ PipelineIdle
  /\ \E u \in Texts({"a", "b"}, MaxText), pw \in Texts(Chars, MaxText) :
       call = [fn |-> "basic", at |-> "start", username |-> u, password |-> pw,
               header |-> <<>>, parsed |-> NoCredentials]

\* the client builds the Authorization header
SendBasicAuth ==
  /\ call.fn = "basic" /\ call.at = "start"
  /\ call' = [call EXCEPT !.at = "sent", !.header = basicAuth(call.username, call.password)]
  /\ UNCHANGED pipeline

\* the server parses it (authenticate)
ParseBasicAuth ==
  /\ call.fn = "basic" /\ call.at = "sent"
  /\ call' = [call EXCEPT !.at = "parsed", !.parsed = parseBasicAuth(call.header)]
  /\ UNCHANGED pipeline

NextBasic == SendBasicAuth \/ ParseBasicAuth
SpecBasic == InitBasic /\ [][NextBasic]_vars

\* C40 (as claimed): for a username without a colon and any password,
\* parsing the header built from them gives back that username and that
\* password.
C40_ParseInvertsBasicAuth ==
  (call.fn = "basic" /\ call.at = "parsed") =>
     /\ call.parsed.ok /\ call.parsed.hasPassword
     /\ call.parsed.username = call.username
     /\ call.parsed.password = call.password

\* ===================================================================
\* The routing generator (caddy.ts): generateCaddyJson makes one TLS
\* automation policy for the domains of the services and one route per
\* service that has a domain and is not the proxy itself.
MaxRouteApps == 1   \* apps in an intent given to the generator

\* an auth scope: path and method are absent ("-"), an empty list ("[]")
\* or a list with one entry
Scopes ==
  {[path |-> "-", method |-> "-"], [path |-> "[]", method |-> "[]"],
   [path |-> "/admin/*", method |-> "-"], [path |-> "[]", method |-> "GET"]}
NoScopes == [def |-> FALSE, list |-> <<>>]
ScopeLists ==
  {NoScopes} \cup {[def |-> TRUE, list |-> l] :
     l \in {<<>>} \cup {<<a>> : a \in Scopes} \cup {<<a, b>> : a \in Scopes, b \in Scopes}}
Policies == {"-", "none", "basic_all", "basic_write_only", "basic_scoped"}
RouteAppNames == <<"api", "web">>
RouteAppDomains == <<"app.example.com", "web.example.com">>
Emails == {"admin@example.com", "ops@example.com"}

\* the services of an intent in the order resolveServices lists them:
\* caddy (on the tower domain), registry, tower, otel, then the apps
InfraServices(towerDomain, registryDomain, otelDomain) ==
  << [name |-> "caddy", domain |-> towerDomain, policy |-> "-", scopes |-> NoScopes],
     [name |-> "registry", domain |-> registryDomain, policy |-> "basic_write_only", scopes |-> NoScopes],
     [name |-> "tower", domain |-> towerDomain, policy |-> "basic_all", scopes |-> NoScopes],
     [name |-> "otel", domain |-> otelDomain, policy |-> "none", scopes |-> NoScopes] >>

\* (variant: custom scopes are kept as they are)
normalizeScopesUnfiltered(scopes, policy) ==
  IF scopes.def /\ Len(scopes.list) > 0 THEN scopes.list
  ELSE IF policy = "basic_write_only" THEN <<[path |-> "/v2/*", method |-> "POST,PUT,PATCH,DELETE"]>>
  ELSE <<>>

\* normalizeScopes: custom scopes with a non-empty path or method list,
\* else the write-only default, else nothing
normalizeScopes(scopes, policy) ==
  IF scopes.def /\ Len(scopes.list) > 0
  THEN SelectSeq(scopes.list, LAMBDA scope : scope.path \notin {"-", "[]"} \/ scope.method \notin {"-", "[]"})
  ELSE IF policy = "basic_write_only" THEN <<[path |-> "/v2/*", method |-> "POST,PUT,PATCH,DELETE"]>>
  ELSE <<>>

\* a branch of a sub-route: its matcher and whether it starts with the
\* authentication handler
Branch(protected, path, method) == [protected |-> protected, path |-> path, method |-> method]
buildBasicAllRoute(domain) ==
  [host |-> domain, kind |-> "basic_all", terminal |-> TRUE, branches |-> <<>>]
buildOpenRoute(domain) ==
  [host |-> domain, kind |-> "open", terminal |-> TRUE, branches |-> <<>>]
buildScopedRoute(domain, scopes) ==
  IF Len(scopes) = 0 THEN buildBasicAllRoute(domain)
  ELSE [host |-> domain, kind |-> "subroute", terminal |-> TRUE,
        branches |-> [i \in 1..Len(scopes) |-> Branch(TRUE, scopes[i].path, scopes[i].method)]
                       \o <<Branch(FALSE, "-", "-")>>]

\* the route pushed for one service (the loop body for a service that is
\* not skipped)
RouteOf(svc) ==
  IF svc.policy = "basic_all" THEN buildBasicAllRoute(svc.domain)
  ELSE IF svc.policy \in {"basic_write_only", "basic_scoped"}
    THEN buildScopedRoute(svc.domain, normalizeScopes(svc.scopes, svc.policy))
  ELSE buildOpenRoute(svc.domain)

\* Array.from(new Set(list)): first occurrences, in order
RECURSIVE Unique(_)
Unique(list) ==
  IF list = <<>> THEN <<>>
  ELSE LET front == Unique(SubSeq(list, 1, Len(list) - 1))
           last == list[Len(list)]
       IN  IF \E i \in 1..Len(front) : front[i] = last THEN front ELSE Append(front, last)

generateCaddyConfig(services, adminEmail) ==
  LET routed == SelectSeq(services, LAMBDA svc : svc.domain # "" /\ svc.name # "caddy")
      withDomain == SelectSeq(services, LAMBDA svc : svc.domain # "")
  IN  [policies |-> <<[subjects |-> Unique([i \in 1..Len(withDomain) |-> withDomain[i].domain]),
                       email |-> adminEmail]>>,
       routes |-> [i \in 1..Len(routed) |-> RouteOf(routed[i])]]

RECURSIVE RouteApps(_)
RouteApps(n) ==
  IF n = 0 THEN {<<>>}
  ELSE RouteApps(n - 1) \cup
       {Append(l, [name |-> RouteAppNames[n], domain |-> RouteAppDomains[n], policy |-> pol, scopes |-> sc]) :
          l \in {x \in RouteApps(n - 1) : Len(x) = n - 1}, pol \in Policies, sc \in ScopeLists}
\* the document of an intent, as far as validateIntent reads it
RouteDocument(towerDomain, registryDomain, apps) ==
  [version |-> "1", extra |-> FALSE, tower |-> towerDomain, registry |-> registryDomain,
   otel |-> "otel.example.com",
   apps |-> [i \in 1..Len(apps) |->
               [name |-> apps[i].name, domain |-> apps[i].domain, healthCheck |-> NoHealthCheck]]]
NoConfig == [policies |-> <<>>, routes |-> <<>>]

\* the generator is given the services of an intent validateIntent accepts
InitCaddy ==
  /\ PipelineIdle
  /\ \E registryDomain \in {"registry.example.com", "tower.example.com"},
        apps \in RouteApps(MaxRouteApps), email \in Emails :
       /\ ~validateIntentData(RouteDocument("tower.example.com", registryDomain, apps)).threw
       /\ call = [fn |-> "caddy", at |-> "start", email |-> email,
                  services |-> InfraServices("tower.example.com", registryDomain, "otel.example.com") \o apps,
                  config |-> NoConfig]

GenerateCaddyJson ==
  /\ call.fn = "caddy" /\ call.at = "start"
  /\ call' = [call EXCEPT !.at = "done", !.config = generateCaddyConfig(call.services, call.email)]
  /\ UNCHANGED pipeline

NextCaddy == GenerateCaddyJson
SpecCaddy == InitCaddy /\ [][NextCaddy]_vars

\* ------------------------------------- properties (routing generator)
Generated == call.fn = "caddy" /\ call.at = "done"
\* the routes of the config for a host
RoutesFor(host) == {i \in 1..Len(call.config.routes) : call.config.routes[i].host = host}
\* a scope that names at least one path or one method
Usable(scope) == scope.path \notin {"-", "[]"} \/ scope.method \notin {"-", "[]"}
\* the usable scopes of a service, the write-only default when it declares
\* no scope at all
UsableScopes(svc) ==
  IF svc.scopes.def /\ svc.scopes.list # <<>>
  THEN SelectSeq(svc.scopes.list, Usable)
  ELSE IF svc.policy = "basic_write_only"
    THEN <<[path |-> "/v2/*", method |-> "POST,PUT,PATCH,DELETE"]>>
  ELSE <<>>

\* C31: the route of a service with policy basic_write_only or
\* basic_scoped is, when it has usable scopes, a sub-route with one
\* protected branch per usable scope, in order, followed by exactly one
\* unprotected branch that matches everything; without usable scopes it
\* is the basic_all route.
C31_ScopedRouteShape ==
  Generated =>
    \A k \in 1..Len(call.services) :
      LET svc == call.services[k]
          us == UsableScopes(svc)
      IN  (svc.policy \in {"basic_write_only", "basic_scoped"} /\ svc.name # "caddy") =>
            \E i \in RoutesFor(svc.domain) :
              LET route == call.config.routes[i] IN
              IF us = <<>> THEN route = buildBasicAllRoute(svc.domain)
              ELSE /\ route.kind = "subroute"
                   /\ Len(route.branches) = Len(us) + 1
                   /\ \A j \in 1..Len(us) :
                        route.branches[j] = Branch(TRUE, us[j].path, us[j].method)
                   /\ route.branches[Len(us) + 1] = Branch(FALSE, "-", "-")

C31_Witness ==
  /\ Generated /\ Len(call.services) = 5
  /\ call.services[5].policy = "basic_scoped" /\ Len(call.services[5].scopes.list) = 2
  /\ ~Usable(call.services[5].scopes.list[1]) /\ Usable(call.services[5].scopes.list[2])
  /\ \E i \in RoutesFor("app.example.com") : Len(call.config.routes[i].branches) = 2

\* C32 (as claimed): one TLS policy, its subjects the service domains each
\* once, its account the admin email; for every service domain exactly one
\* route, and every route terminal.
C32_OnePolicyOneRoutePerDomain ==
  Generated =>
    LET domains == {call.services[k].domain : k \in 1..Len(call.services)}
        policy == call.config.policies[1]
    IN  /\ Len(call.config.policies) = 1
        /\ {policy.subjects[i] : i \in 1..Len(policy.subjects)} = domains
        /\ Len(policy.subjects) = Cardinality(domains)
        /\ policy.email = call.email
        /\ \A d \in domains : Cardinality(RoutesFor(d)) = 1
        /\ \A i \in 1..Len(call.config.routes) : call.config.routes[i].terminal

\* ===================================================================
\* Further properties of the DNS gate and of the apply pipeline

\* C33: a stage that runs tasks in parallel (here the DNS gate, one loop
\* per domain, interleaved in every order) ends, with success or failure,
\* only when every loop has returned, and its verdict is a function of
\* the results of the loops alone.
C33_BarrierState ==
  (DnsGateEnded /\ call.domains # {}) =>
     /\ \A d \in call.domains : call.dom[d].pc \in {"success", "timeout"}
     /\ call.at = "ok" <=> \A d \in call.domains : call.dom[d].pc = "success"
     /\ call.named = {d \in call.domains : call.dom[d].pc = "timeout"}
C33_BarrierStep ==
  (call.fn = "dns" /\ call.at = "checking" /\ call'.at # "checking") =>
     /\ \A d \in call.domains : call.dom[d].pc \in {"success", "timeout"}
     /\ call'.dom = call.dom
C36_TempPathNotShared ==
  \A p \in Workers :
     /\ pc[p] = "validate" => files["tmp"] = Full(composeYaml(p))
     /\ "manifest" \in fx[p] => (run[p].verdict = "ok" /\ run[p].checked = composeYaml(p))

\* C37 (as claimed): while no apply is in progress, Caddy.json holds the
\* config the proxy last accepted, and that config is the one of the
\* applied-intent record.
C37_CaddyFileIsLiveConfig ==
  ((\A p \in Workers : pc[p] \notin PipelinePcs) /\ files["caddy"].st # "absent") =>
     /\ files["caddy"] = Full(proxy)
     /\ files["intent"].st = "full" =>
          files["caddy"].c = generateCaddyJson(IntentOfRecord(files["intent"].c))

====
